---- MODULE Spec2Model ----
(***************************************************************************)
(* LeakCheck: the rule engine of the C++ leak detector                     *)
(* (package analyzer) applied to the class records the parser produces.    *)
(*                                                                         *)
(* A class record is the parser's Class struct; a function body is a       *)
(* sequence of the statements parseFunctionBody recognises, and the        *)
(* Function record is what parseFunctionBody appends while reading them.   *)
(***************************************************************************)
EXTENDS Integers, Sequences, FiniteSets, TLC

VARIABLES pc, classes, leaks, files, next, registry, skipped, reportErr, exitCode,
          lexer, parser

\* The state of one run of main: the files found by the scan, the index of
\* the file the parse loop is at, the registry's allClasses, the files
\* reported as unreadable, whether Report returned an error, and the exit
\* code once the process has exited.
mainVars == <<files, next, registry, skipped, reportErr, exitCode>>

\* The Lexer and the Parser that are at work on one file.
frontVars == <<lexer, parser>>

vars == <<pc, classes, leaks, files, next, registry, skipped, reportErr, exitCode,
          lexer, parser>>

(***************************************************************************)
(* Data types (package parser, types.go)                                   *)
(***************************************************************************)

\* A nil *Function (Class.Constructor, Class.Destructor) or *Deallocation.
Nil == [nil |-> TRUE]

Member(name, isPointer, line) ==
    [Name |-> name, IsPointer |-> isPointer, Line |-> line]

Allocation(varName, isArray, line) ==
    [VarName |-> varName, IsArray |-> isArray, Line |-> line]

Deallocation(varName, isArray, line) ==
    [VarName |-> varName, IsArray |-> isArray, Line |-> line]

PointerAlias(targetVar, sourceVar, line) ==
    [SourceVar |-> sourceVar, TargetVar |-> targetVar, Line |-> line]

Leak(file, line, className, varName, reason, severity) ==
    [File |-> file, Line |-> line, ClassName |-> className,
     VarName |-> varName, Reason |-> reason, Severity |-> severity]

Class(name, file, members, constructor, destructor, methods) ==
    [Name |-> name, File |-> file, Members |-> members,
     Constructor |-> constructor, Destructor |-> destructor,
     Methods |-> methods]

(***************************************************************************)
(* Sequence helpers                                                        *)
(***************************************************************************)

RECURSIVE Flatten(_)
Flatten(ss) ==
    IF ss = <<>> THEN <<>> ELSE Head(ss) \o Flatten(Tail(ss))

MaxOf(S) == CHOOSE m \in S : \A n \in S : n <= m

\* All orders in which a Go `range` over a map with key set S may visit it.
Perms(S) ==
    {s \in [1..Cardinality(S) -> S] :
        \A i, j \in 1..Cardinality(S) : i # j => s[i] # s[j]}

(***************************************************************************)
(* Statements of a function body, as parseFunctionBody classifies them     *)
(***************************************************************************)

StNew(v, isArray) == [k |-> "new", v |-> v, arr |-> isArray]
StDelete(v, isArray) == [k |-> "delete", v |-> v, arr |-> isArray]
StCall(m) == [k |-> "call", m |-> m]
StAlias(target, source) == [k |-> "alias", tgt |-> target, src |-> source]

\* The Function record parseFunctionBody builds for a body whose statements
\* are `body`; a one-line body has every statement on the start line,
\* otherwise statement i is on line startLine + i.
FunctionOf(name, isDestructor, startLine, oneLine, body) ==
    LET lineOf(i) == IF oneLine THEN startLine ELSE startLine + i
        at == [i \in DOMAIN body |-> [s |-> body[i], line |-> lineOf(i)]]
        news == SelectSeq(at, LAMBDA e : e.s.k = "new")
        dels == SelectSeq(at, LAMBDA e : e.s.k = "delete")
        calls == SelectSeq(at, LAMBDA e : e.s.k = "call")
        als == SelectSeq(at, LAMBDA e : e.s.k = "alias")
    IN  [Name |-> name,
         IsDestructor |-> isDestructor,
         StartLine |-> startLine,
         EndLine |-> IF oneLine THEN startLine ELSE startLine + Len(body) + 1,
         Allocations |->
            [i \in DOMAIN news |-> Allocation(news[i].s.v, news[i].s.arr, news[i].line)],
         Deallocations |->
            [i \in DOMAIN dels |-> Deallocation(dels[i].s.v, dels[i].s.arr, dels[i].line)],
         MethodCalls |-> [i \in DOMAIN calls |-> calls[i].s.m],
         Aliases |->
            [i \in DOMAIN als |-> PointerAlias(als[i].s.tgt, als[i].s.src, als[i].line)]]

(***************************************************************************)
(* package analyzer                                                        *)
(***************************************************************************)

MaxMethodDepth == 5

ReasonNotDeleted == "allocated with 'new' but not deleted in destructor"
ReasonArrayAsScalar ==
    "allocated with 'new[]' but deleted with 'delete' instead of 'delete[]'"
ReasonScalarAsArray ==
    "allocated with 'new' but deleted with 'delete[]' instead of 'delete'"
ReasonReassigned(methodName) ==
    "pointer reassigned with 'new' without deleting previous allocation (in "
        \o methodName \o ")"
ReasonDoubleFree(targetVar) ==
    "pointer aliased to '" \o targetVar
        \o "' and both are deleted (potential double-free)"
ReasonNoDestructor == "pointer member allocated but class has no destructor"

\* pointerMembers: member name -> Member, for the members with IsPointer.
pointerMembers(class) ==
    LET M == class.Members
        idx == {i \in DOMAIN M : M[i].IsPointer}
    IN  [n \in {M[i].Name : i \in idx} |->
            M[MaxOf({i \in idx : M[i].Name = n})]]

\* allocatedVars keeping the first constructor Allocation of each variable.
allocatedVars_FirstWins(class) ==
    IF class.Constructor = Nil THEN <<>>
    ELSE LET A == class.Constructor.Allocations
         IN  [v \in {A[i].VarName : i \in DOMAIN A} |->
                A[CHOOSE i \in DOMAIN A :
                    A[i].VarName = v /\ \A j \in 1..(i - 1) : A[j].VarName # v]]

\* allocatedVars: variable name -> the last constructor Allocation of it.
allocatedVars(class) ==
    IF class.Constructor = Nil THEN <<>>
    ELSE LET A == class.Constructor.Allocations
         IN  [v \in {A[i].VarName : i \in DOMAIN A} |->
                A[MaxOf({i \in DOMAIN A : A[i].VarName = v})]]

\* methodMap: method name -> the last method of that name.
methodMap(class) ==
    LET M == class.Methods
    IN  [n \in {M[i].Name : i \in DOMAIN M} |->
            M[MaxOf({i \in DOMAIN M : M[i].Name = n})]]

\* result[dealloc.VarName] = dealloc for each dealloc of the list, in order.
PutDeallocations(result, deallocs) ==
    [v \in DOMAIN result \cup {deallocs[i].VarName : i \in DOMAIN deallocs} |->
        IF \E i \in DOMAIN deallocs : deallocs[i].VarName = v
        THEN deallocs[MaxOf({i \in DOMAIN deallocs : deallocs[i].VarName = v})]
        ELSE result[v]]

\* collectDeallocations works on the two maps it is handed, `result` and
\* `visited`.  Two fields beside them record the traversal itself: `level`
\* is the number of invocations on the call stack (1 in the invocation for
\* the destructor), and `entered` lists, in order, every function whose body
\* was gone through, with the depth budget and the level it had there.
RECURSIVE collectDeallocations(_, _, _, _)
RECURSIVE collectCalled(_, _, _, _, _)

\* collectDeallocations without the test of the visited set.
collectDeallocations_NoVisited(fn, mmap, st, depth) ==
    IF depth <= 0 \/ fn = Nil THEN st
    ELSE collectCalled(fn.MethodCalls, 1, mmap,
            [result |-> PutDeallocations(st.result, fn.Deallocations),
             visited |-> st.visited \cup {fn.Name},
             entered |-> Append(st.entered,
                            [name |-> fn.Name, depth |-> depth, level |-> st.level]),
             level |-> st.level],
            depth)

\* collectDeallocations stopping one call later (depth < 0).
collectDeallocations_OneDeeper(fn, mmap, st, depth) ==
    IF depth < 0 \/ fn = Nil THEN st
    ELSE IF fn.Name \in st.visited THEN st
    ELSE collectCalled(fn.MethodCalls, 1, mmap,
            [result |-> PutDeallocations(st.result, fn.Deallocations),
             visited |-> st.visited \cup {fn.Name},
             entered |-> Append(st.entered,
                            [name |-> fn.Name, depth |-> depth, level |-> st.level]),
             level |-> st.level],
            depth)

collectDeallocations(fn, mmap, st, depth) ==
    IF depth <= 0 \/ fn = Nil THEN st
    ELSE IF fn.Name \in st.visited THEN st
    ELSE collectCalled(fn.MethodCalls, 1, mmap,
            [result |-> PutDeallocations(st.result, fn.Deallocations),
             visited |-> st.visited \cup {fn.Name},
             entered |-> Append(st.entered,
                            [name |-> fn.Name, depth |-> depth, level |-> st.level]),
             level |-> st.level],
            depth)

\* The loop over fn.MethodCalls, from the i-th call on.
collectCalled(calls, i, mmap, st, depth) ==
    IF i > Len(calls) THEN st
    ELSE collectCalled(calls, i + 1, mmap,
            IF calls[i] \in DOMAIN mmap
            THEN [collectDeallocations(mmap[calls[i]], mmap,
                                       [st EXCEPT !.level = @ + 1], depth - 1)
                    EXCEPT !.level = st.level]
            ELSE st,
            depth)

\* The traversal limited to the destructor and the methods it calls itself.
collected_OneLevel(class) ==
    LET st0 == [result |-> <<>>, visited |-> {}, entered |-> <<>>, level |-> 1]
    IN  IF class.Destructor # Nil
        THEN collectDeallocations(class.Destructor, methodMap(class), st0, 2)
        ELSE st0

\* The traversal started with one call less of budget.
collected_OneShallower(class) ==
    LET st0 == [result |-> <<>>, visited |-> {}, entered |-> <<>>, level |-> 1]
    IN  IF class.Destructor # Nil
        THEN collectDeallocations(class.Destructor, methodMap(class), st0, MaxMethodDepth - 1)
        ELSE st0

\* The traversal analyzeClass starts: from the destructor, if there is one.
collected(class) ==
    LET st0 == [result |-> <<>>, visited |-> {}, entered |-> <<>>, level |-> 1]
    IN  IF class.Destructor # Nil
        THEN collectDeallocations(class.Destructor, methodMap(class), st0, MaxMethodDepth)
        ELSE st0

deallocatedVars(class) == collected(class).result

\* Every PointerAlias of the class: constructor's, destructor's, methods'.
allAliases(class) ==
    (IF class.Constructor # Nil THEN class.Constructor.Aliases ELSE <<>>)
    \o (IF class.Destructor # Nil THEN class.Destructor.Aliases ELSE <<>>)
    \o Flatten([i \in DOMAIN class.Methods |-> class.Methods[i].Aliases])

\* buildAliasMap without the reverse edges: source -> targets only.
buildAliasMap_OneWay(class) ==
    LET al == allAliases(class)
    IN  [v \in {al[i].SourceVar : i \in DOMAIN al} |->
            LET mine == SelectSeq(al, LAMBDA a : a.SourceVar = v)
            IN  [i \in DOMAIN mine |-> mine[i].TargetVar]]

\* aliasMap: name -> the names appended for it, in order.
buildAliasMap(class) ==
    LET al == allAliases(class)
        edges == Flatten([i \in DOMAIN al |->
                    << <<al[i].SourceVar, al[i].TargetVar>>,
                       <<al[i].TargetVar, al[i].SourceVar>> >>])
    IN  [v \in {edges[i][1] : i \in DOMAIN edges} |->
            LET mine == SelectSeq(edges, LAMBDA e : e[1] = v)
            IN  [i \in DOMAIN mine |-> mine[i][2]]]

\* isVarDeallocated with the direct check only.
isVarDeallocated_DirectOnly(varName, dvars, aliasMap) ==
    varName \in DOMAIN dvars

isVarDeallocated(varName, dvars, aliasMap) ==
    \/ varName \in DOMAIN dvars
    \/ /\ varName \in DOMAIN aliasMap
       /\ \E i \in DOMAIN aliasMap[varName] : aliasMap[varName][i] \in DOMAIN dvars

findDeallocation(varName, dvars, aliasMap) ==
    IF varName \in DOMAIN dvars THEN dvars[varName]
    ELSE IF varName \in DOMAIN aliasMap
            /\ \E i \in DOMAIN aliasMap[varName] : aliasMap[varName][i] \in DOMAIN dvars
    THEN LET a == aliasMap[varName]
             first == CHOOSE i \in DOMAIN a :
                        /\ a[i] \in DOMAIN dvars
                        /\ \A j \in 1..(i - 1) : a[j] \notin DOMAIN dvars
         IN  dvars[a[first]]
    ELSE Nil

\* Rule 1 reporting an array mismatch at the allocation's line.
rule1_MismatchAtAllocation(class, varName, alloc, dvars, aliasMap) ==
    IF ~isVarDeallocated(varName, dvars, aliasMap)
    THEN <<Leak(class.File, alloc.Line, class.Name, varName, ReasonNotDeleted, "error")>>
    ELSE LET dealloc == findDeallocation(varName, dvars, aliasMap)
         IN  IF dealloc = Nil THEN <<>>
             ELSE IF alloc.IsArray /\ ~dealloc.IsArray
             THEN <<Leak(class.File, alloc.Line, class.Name, varName,
                         ReasonArrayAsScalar, "error")>>
             ELSE IF ~alloc.IsArray /\ dealloc.IsArray
             THEN <<Leak(class.File, alloc.Line, class.Name, varName,
                         ReasonScalarAsArray, "warning")>>
             ELSE <<>>

\* Rule 1 for one entry (varName, alloc) of allocatedVars.
rule1(class, varName, alloc, dvars, aliasMap) ==
    IF ~isVarDeallocated(varName, dvars, aliasMap)
    THEN <<Leak(class.File, alloc.Line, class.Name, varName, ReasonNotDeleted, "error")>>
    ELSE LET dealloc == findDeallocation(varName, dvars, aliasMap)
         IN  IF dealloc = Nil THEN <<>>
             ELSE IF alloc.IsArray /\ ~dealloc.IsArray
             THEN <<Leak(class.File, dealloc.Line, class.Name, varName,
                         ReasonArrayAsScalar, "error")>>
             ELSE IF ~alloc.IsArray /\ dealloc.IsArray
             THEN <<Leak(class.File, dealloc.Line, class.Name, varName,
                         ReasonScalarAsArray, "warning")>>
             ELSE <<>>

\* Rule 2 accepting a delete on the allocation's own line as a prior delete.
rule2_DeleteOnSameLine(class, method, alloc, pmembers, avars) ==
    IF alloc.VarName \in DOMAIN pmembers
    THEN LET hasDeleteBeforeNew ==
                \E i \in DOMAIN method.Deallocations :
                    /\ method.Deallocations[i].VarName = alloc.VarName
                    /\ method.Deallocations[i].Line <= alloc.Line
         IN  IF ~hasDeleteBeforeNew /\ alloc.VarName \in DOMAIN avars
             THEN <<Leak(class.File, alloc.Line, class.Name, alloc.VarName,
                         ReasonReassigned(method.Name), "warning")>>
             ELSE <<>>
    ELSE <<>>

\* Rule 2 for one allocation of one method.
rule2(class, method, alloc, pmembers, avars) ==
    IF alloc.VarName \in DOMAIN pmembers
    THEN LET hasDeleteBeforeNew ==
                \E i \in DOMAIN method.Deallocations :
                    /\ method.Deallocations[i].VarName = alloc.VarName
                    /\ method.Deallocations[i].Line < alloc.Line
         IN  IF ~hasDeleteBeforeNew /\ alloc.VarName \in DOMAIN avars
             THEN <<Leak(class.File, alloc.Line, class.Name, alloc.VarName,
                         ReasonReassigned(method.Name), "warning")>>
             ELSE <<>>
    ELSE <<>>

\* Rule 3 flagging an alias as soon as either name is deleted.
rule3_EitherDeleted(class, method, alias, pmembers) ==
    IF alias.SourceVar \in DOMAIN pmembers
    THEN LET sourceDeleted ==
                \E i \in DOMAIN method.Deallocations :
                    method.Deallocations[i].VarName = alias.SourceVar
             targetDeleted ==
                \E i \in DOMAIN method.Deallocations :
                    method.Deallocations[i].VarName = alias.TargetVar
         IN  IF sourceDeleted \/ targetDeleted
             THEN <<Leak(class.File, alias.Line, class.Name, alias.SourceVar,
                         ReasonDoubleFree(alias.TargetVar), "error")>>
             ELSE <<>>
    ELSE <<>>

\* Rule 3 for one alias of one method.
rule3(class, method, alias, pmembers) ==
    IF alias.SourceVar \in DOMAIN pmembers
    THEN LET sourceDeleted ==
                \E i \in DOMAIN method.Deallocations :
                    method.Deallocations[i].VarName = alias.SourceVar
             targetDeleted ==
                \E i \in DOMAIN method.Deallocations :
                    method.Deallocations[i].VarName = alias.TargetVar
         IN  IF sourceDeleted /\ targetDeleted
             THEN <<Leak(class.File, alias.Line, class.Name, alias.SourceVar,
                         ReasonDoubleFree(alias.TargetVar), "error")>>
             ELSE <<>>
    ELSE <<>>

\* Rule 4 for one pointer member.
rule4(class, member, avars) ==
    IF member.Name \in DOMAIN avars
    THEN <<Leak(class.File, member.Line, class.Name, member.Name,
                ReasonNoDestructor, "error")>>
    ELSE <<>>

\* analyzeClass without the early return for a class with no pointer member.
analyzeClass_NoSkip(class, allocOrder, memberOrder) ==
    LET pmembers == pointerMembers(class)
        avars == allocatedVars(class)
        dvars == deallocatedVars(class)
        aliasMap == buildAliasMap(class)
        M == class.Methods
    IN  Flatten([i \in DOMAIN allocOrder |->
                rule1(class, allocOrder[i], avars[allocOrder[i]], dvars, aliasMap)])
          \o Flatten([m \in DOMAIN M |->
                Flatten([i \in DOMAIN M[m].Allocations |->
                    rule2(class, M[m], M[m].Allocations[i], pmembers, avars)])])
          \o Flatten([m \in DOMAIN M |->
                Flatten([i \in DOMAIN M[m].Aliases |->
                    rule3(class, M[m], M[m].Aliases[i], pmembers)])])
          \o (IF class.Destructor = Nil
              THEN Flatten([i \in DOMAIN memberOrder |->
                        rule4(class, pmembers[memberOrder[i]], avars)])
              ELSE <<>>)

\* analyzeClass; allocOrder and memberOrder are the orders in which the two
\* `range` loops over the maps allocatedVars and pointerMembers visit them.
analyzeClass(class, allocOrder, memberOrder) ==
    LET pmembers == pointerMembers(class)
        avars == allocatedVars(class)
        dvars == deallocatedVars(class)
        aliasMap == buildAliasMap(class)
        M == class.Methods
    IN  IF DOMAIN pmembers = {} THEN <<>>
        ELSE Flatten([i \in DOMAIN allocOrder |->
                rule1(class, allocOrder[i], avars[allocOrder[i]], dvars, aliasMap)])
          \o Flatten([m \in DOMAIN M |->
                Flatten([i \in DOMAIN M[m].Allocations |->
                    rule2(class, M[m], M[m].Allocations[i], pmembers, avars)])])
          \o Flatten([m \in DOMAIN M |->
                Flatten([i \in DOMAIN M[m].Aliases |->
                    rule3(class, M[m], M[m].Aliases[i], pmembers)])])
          \o (IF class.Destructor = Nil
              THEN Flatten([i \in DOMAIN memberOrder |->
                        rule4(class, pmembers[memberOrder[i]], avars)])
              ELSE <<>>)

\* The iteration orders one run of analyzeClass may take.
RangeOrders(class) ==
    Perms(DOMAIN allocatedVars(class)) \X Perms(DOMAIN pointerMembers(class))

\* Analyzer.Analyze: the leaks of every class, in the order of a.classes;
\* orders[i] gives the map iteration orders taken for classes[i].
RECURSIVE AnalyzeFrom(_, _, _)
AnalyzeFrom(cs, orders, i) ==
    IF i > Len(cs) THEN <<>>
    ELSE analyzeClass(cs[i], orders[i][1], orders[i][2])
            \o AnalyzeFrom(cs, orders, i + 1)

(***************************************************************************)
(* ClassRegistry (package parser, registry.go)                             *)
(***************************************************************************)

\* strings.ToLower on the ASCII letters.
LowerOf(ch) ==
    LET up == "ABCDEFGHIJKLMNOPQRSTUVWXYZ"
        lo == "abcdefghijklmnopqrstuvwxyz"
    IN  IF \E i \in 1..26 : SubSeq(up, i, i) = ch
        THEN LET i == CHOOSE j \in 1..26 : SubSeq(up, j, j) = ch
             IN  SubSeq(lo, i, i)
        ELSE ch

RECURSIVE ToLower(_)
ToLower(s) ==
    IF s = "" THEN "" ELSE LowerOf(SubSeq(s, 1, 1)) \o ToLower(Tail(s))

\* strings.Contains.
Contains(s, substr) ==
    \E i \in 1..(Len(s) - Len(substr) + 1) : SubSeq(s, i, i + Len(substr) - 1) = substr

\* filepath.Ext: the suffix that starts at the last dot of the last
\* slash-separated element of the path; empty if there is no dot.
RECURSIVE ExtFrom(_, _)
ExtFrom(path, i) ==
    IF i < 1 \/ SubSeq(path, i, i) = "/" THEN ""
    ELSE IF SubSeq(path, i, i) = "." THEN SubSeq(path, i, Len(path))
    ELSE ExtFrom(path, i - 1)

Ext(path) == ExtFrom(path, Len(path))

\* filepath.Base: the last element of the path, trailing slashes removed.
RECURSIVE StripSlashes(_)
StripSlashes(path) ==
    IF Len(path) > 0 /\ SubSeq(path, Len(path), Len(path)) = "/"
    THEN StripSlashes(SubSeq(path, 1, Len(path) - 1))
    ELSE path

RECURSIVE LastElement(_, _)
LastElement(path, i) ==
    IF i < 1 THEN path
    ELSE IF SubSeq(path, i, i) = "/" THEN SubSeq(path, i + 1, Len(path))
    ELSE LastElement(path, i - 1)

Base(path) ==
    IF path = "" THEN "."
    ELSE LET p == StripSlashes(path)
         IN  IF p = "" THEN "/" ELSE LastElement(p, Len(p))

isHeaderFile(filename) ==
    ToLower(Ext(filename)) \in {".h", ".hpp", ".hxx"}

\* The capacity append gives a []Function that is full: 1 from empty, then
\* doubled (growslice, below 256 elements).
GrowCap(cap) == IF cap = 0 THEN 1 ELSE 2 * cap

\* The capacity of a []Function the parser built by n appends to an empty
\* slice.
RECURSIVE CapAfter(_)
CapAfter(n) ==
    IF n = 0 THEN 0
    ELSE IF n - 1 < CapAfter(n - 1) THEN CapAfter(n - 1)
    ELSE GrowCap(CapAfter(n - 1))

\* mergeClassInto, the loop over source.Methods from the i-th on.  st holds
\* target.Methods, its capacity, and whether an append has moved it to a new
\* array since methodMap took the addresses of its elements (an update
\* through such an address then writes to the array that was left behind).
RECURSIVE mergeMethods(_, _, _, _)
mergeMethods(st, srcMethods, i, held) ==
    IF i > Len(srcMethods) THEN st
    ELSE LET method == srcMethods[i]
         IN  IF method.Name \notin DOMAIN held
             THEN mergeMethods(
                    [methods |-> Append(st.methods, method),
                     cap |-> IF Len(st.methods) < st.cap THEN st.cap ELSE GrowCap(st.cap),
                     moved |-> st.moved \/ ~(Len(st.methods) < st.cap)],
                    srcMethods, i + 1, held)
             ELSE IF Len(method.Allocations) > 0 \/ Len(method.Deallocations) > 0
             THEN mergeMethods(
                    IF st.moved THEN st
                    ELSE [st EXCEPT !.methods[held[method.Name]] = method],
                    srcMethods, i + 1, held)
             ELSE mergeMethods(st, srcMethods, i + 1, held)

\* mergeClassInto: the target after source was merged into it.  t is the
\* held record with the capacity of its Methods slice.
mergeClassInto(t, source) ==
    LET target == t.class
        targetIsHeader == isHeaderFile(target.File)
        sourceIsHeader == isHeaderFile(source.File)
        members ==
            IF sourceIsHeader /\ ~targetIsHeader
            THEN IF Len(source.Members) > 0 THEN source.Members ELSE target.Members
            ELSE IF ~sourceIsHeader /\ targetIsHeader THEN target.Members
            ELSE IF Len(target.Members) = 0 /\ Len(source.Members) > 0
            THEN source.Members
            ELSE target.Members
        constructor ==
            IF target.Constructor = Nil /\ source.Constructor # Nil
            THEN source.Constructor
            ELSE IF source.Constructor # Nil /\ target.Constructor # Nil
                    /\ Len(source.Constructor.Allocations) > 0
                    /\ Len(target.Constructor.Allocations) = 0
            THEN source.Constructor
            ELSE target.Constructor
        destructor ==
            IF target.Destructor = Nil /\ source.Destructor # Nil
            THEN source.Destructor
            ELSE IF source.Destructor # Nil /\ target.Destructor # Nil
                    /\ Len(source.Destructor.Deallocations) > 0
                    /\ Len(target.Destructor.Deallocations) = 0
            THEN source.Destructor
            ELSE target.Destructor
        M == target.Methods
        held == [n \in {M[i].Name : i \in DOMAIN M} |->
                    MaxOf({i \in DOMAIN M : M[i].Name = n})]
        st == mergeMethods([methods |-> M, cap |-> t.cap, moved |-> FALSE],
                           source.Methods, 1, held)
        file ==
            IF ~Contains(target.File, source.File) /\ target.File # source.File
            THEN target.File \o ", " \o Base(source.File)
            ELSE target.File
    IN  [class |-> Class(target.Name, file, members, constructor, destructor, st.methods),
         cap |-> st.cap]

\* MergeClasses, the loop over r.allClasses from the i-th on: merged maps a
\* class name to the held record.
RECURSIVE mergeFrom(_, _, _)
mergeFrom(merged, allClasses, i) ==
    IF i > Len(allClasses) THEN merged
    ELSE LET class == allClasses[i]
         IN  IF class.Name \notin DOMAIN merged
             THEN mergeFrom(
                    [n \in DOMAIN merged \cup {class.Name} |->
                        IF n = class.Name
                        THEN [class |-> class, cap |-> CapAfter(Len(class.Methods))]
                        ELSE merged[n]],
                    allClasses, i + 1)
             ELSE mergeFrom(
                    [merged EXCEPT ![class.Name] = mergeClassInto(@, class)],
                    allClasses, i + 1)

\* MergeClasses keeping the first record of each name as it is.
MergeClasses_FirstOnly(allClasses, order) ==
    [i \in DOMAIN order |->
        allClasses[CHOOSE k \in DOMAIN allClasses :
            /\ allClasses[k].Name = order[i]
            /\ \A j \in 1..(k - 1) : allClasses[j].Name # order[i]]]

\* MergeClasses returning every record that was added, unmerged.
MergeClasses_KeepAll(allClasses, order) == allClasses

\* MergeClasses: the merged records, in the order `range merged` takes for
\* the names.
MergeClasses(allClasses, order) ==
    LET merged == mergeFrom(<<>>, allClasses, 1)
    IN  [i \in DOMAIN order |-> merged[order[i]].class]

\* The orders `range merged` may take.
MergeOrders(allClasses) ==
    Perms({allClasses[i].Name : i \in DOMAIN allClasses})

(***************************************************************************)
(* The class records handed to the analyzer                                *)
(***************************************************************************)

MaxCtorStmts == 2
MaxDtorStmts == 2
MaxMethodStmts == 3
MaxChain == 6

SeqsUpTo(S, n) == UNION {[1..k -> S] : k \in 0..n}

ClassName == "C"
DtorName == "~C"
FileName == "c.cpp"

Ctor(body) == FunctionOf(ClassName, FALSE, 10, FALSE, body)
Dtor(oneLine, body) == FunctionOf(DtorName, TRUE, 20, oneLine, body)
MethodName(i) == <<"m1", "m2", "m3", "m4", "m5", "m6", "m7">>[i]
Method(i, oneLine, body) ==
    FunctionOf(MethodName(i), FALSE, 20 + 10 * i, oneLine, body)

\* Classes that vary the members, the constructor and the destructor.
RuleClasses ==
    LET members == {<<>>, <<Member("p", TRUE, 2)>>, <<Member("q", TRUE, 3)>>,
                    <<Member("p", TRUE, 2), Member("q", TRUE, 3)>>}
        ctorSt == {StNew("p", FALSE), StNew("p", TRUE), StNew("q", FALSE),
                   StAlias("t", "p")}
        dtorSt == {StDelete(v, a) : v \in {"p", "q", "t"}, a \in BOOLEAN}
                    \cup {StAlias("t", "p"), StAlias("q", "t")}
        ctors == {Nil} \cup {Ctor(b) : b \in SeqsUpTo(ctorSt, MaxCtorStmts)}
        dtors == {Nil} \cup {Dtor(FALSE, b) : b \in SeqsUpTo(dtorSt, MaxDtorStmts)}
        methods == {<<>>, <<Method(1, FALSE, <<StAlias("p", "t")>>)>>}
    IN  {Class(ClassName, FileName, m, c, d, ms) :
            m \in members, c \in ctors, d \in dtors, ms \in methods}

\* Classes whose destructor holds one alias, between any two of the names,
\* and one delete, in either order.
AliasClasses ==
    LET names == {"p", "q", "t"}
        members == {<<Member("p", TRUE, 2)>>,
                    <<Member("p", TRUE, 2), Member("q", TRUE, 3)>>}
        ctors == {Ctor(<<StNew("p", FALSE)>>),
                  Ctor(<<StNew("p", TRUE), StNew("q", TRUE)>>),
                  Ctor(<<StNew("p", FALSE), StAlias("q", "p")>>)}
        aliases == {StAlias(x, y) : x, y \in names} \ {StAlias(x, x) : x \in names}
        deletes == {StDelete(v, a) : v \in names, a \in BOOLEAN}
        dtors == {Dtor(FALSE, <<al, de>>) : al \in aliases, de \in deletes}
                    \cup {Dtor(FALSE, <<de, al>>) : al \in aliases, de \in deletes}
        methods == {<<>>, <<Method(1, FALSE, <<StAlias("t", "p")>>)>>}
    IN  {Class(ClassName, FileName, m, c, d, ms) :
            m \in members, c \in ctors, d \in dtors, ms \in methods}

\* Classes that vary the body of a method, beside a small constructor and
\* destructor and an optional second method.
MethodClasses ==
    LET members == {<<>>, <<Member("p", TRUE, 2)>>, <<Member("q", TRUE, 3)>>}
        ctors == {Nil, Ctor(<<StNew("p", FALSE)>>)}
        dtors == {Nil, Dtor(TRUE, <<>>), Dtor(TRUE, <<StDelete("p", FALSE)>>)}
        methSt == {StNew("p", FALSE), StDelete("p", FALSE), StDelete("t", FALSE),
                   StAlias("t", "p"), StAlias("p", "t")}
        first == {Method(1, o, b) :
                    o \in BOOLEAN, b \in SeqsUpTo(methSt, MaxMethodStmts)}
        second == {<<>>, <<Method(2, TRUE, <<StDelete("p", FALSE)>>)>>,
                   <<Method(2, TRUE, <<StNew("p", FALSE)>>)>>}
    IN  {Class(ClassName, FileName, m, c, d, <<f>> \o s) :
            m \in members, c \in ctors, d \in dtors, f \in first, s \in second}

\* Classes whose destructor starts a chain of calls ~C -> m1 -> ... -> mk,
\* with `delete[] p` in one function of the class (or in none) and at most
\* one further call, put first or last in the caller's body.
ChainClasses ==
    LET fns == 0..MaxChain
        body(f, k, del, extra) ==
            (IF extra.on /\ extra.from = f /\ extra.first
                THEN <<StCall(MethodName(extra.to))>> ELSE <<>>)
            \o (IF del = f THEN <<StDelete("p", TRUE)>> ELSE <<>>)
            \o (IF f < k THEN <<StCall(MethodName(f + 1))>> ELSE <<>>)
            \o (IF extra.on /\ extra.from = f /\ ~extra.first
                THEN <<StCall(MethodName(extra.to))>> ELSE <<>>)
        extras == {[on |-> FALSE, from |-> 0, to |-> 1, first |-> FALSE]}
                    \cup [on : {TRUE}, from : fns, to : 1..MaxChain, first : BOOLEAN]
    IN  {Class(ClassName, FileName, <<Member("p", TRUE, 2)>>,
               Ctor(<<StNew("p", TRUE)>>),
               Dtor(FALSE, body(0, k, del, extra)),
               [i \in 1..MaxChain |-> Method(i, FALSE, body(i, k, del, extra))]) :
            k \in fns, del \in fns \cup {MaxChain + 1}, extra \in extras}

\* testdata/edge_cases.cpp, CASE 1.
BasicLeak ==
    Class("BasicLeak", "edge_cases.cpp", <<Member("ptr", TRUE, 8)>>,
          FunctionOf("BasicLeak", FALSE, 11, TRUE, <<StNew("ptr", FALSE)>>),
          FunctionOf("~BasicLeak", TRUE, 12, TRUE, <<>>),
          <<>>)

\* testdata/edge_cases.cpp, CASE 7.
DeepNestedCleanup ==
    Class("DeepNestedCleanup", "edge_cases.cpp", <<Member("matrix", TRUE, 98)>>,
          FunctionOf("DeepNestedCleanup", FALSE, 101, TRUE, <<StNew("matrix", TRUE)>>),
          FunctionOf("~DeepNestedCleanup", TRUE, 105, TRUE, <<StCall("level1")>>),
          <<FunctionOf("level3", FALSE, 102, TRUE, <<StDelete("matrix", TRUE)>>),
            FunctionOf("level2", FALSE, 103, TRUE, <<StCall("level3")>>),
            FunctionOf("level1", FALSE, 104, TRUE, <<StCall("level2")>>)>>)

\* testdata/edge_cases.cpp, CASE 8.
ReassignmentLeak ==
    Class("ReassignmentLeak", "edge_cases.cpp", <<Member("ptr", TRUE, 113)>>,
          FunctionOf("ReassignmentLeak", FALSE, 116, TRUE, <<StNew("ptr", FALSE)>>),
          FunctionOf("~ReassignmentLeak", TRUE, 120, TRUE, <<StDelete("ptr", FALSE)>>),
          <<FunctionOf("reassign", FALSE, 117, FALSE, <<StNew("ptr", FALSE)>>)>>)

\* testdata/edge_cases.cpp, CASE 10.
NoDestructor ==
    Class("NoDestructor", "edge_cases.cpp", <<Member("leaked", TRUE, 144)>>,
          FunctionOf("NoDestructor", FALSE, 147, TRUE, <<StNew("leaked", TRUE)>>),
          Nil,
          <<>>)

\* The ThreadPool class of the comprehensive test file.
ThreadPool ==
    Class("ThreadPool", "comprehensive_test.cpp",
          <<Member("threadIds", TRUE, 265), Member("taskQueue", TRUE, 266),
            Member("priorityQueue", TRUE, 267)>>,
          FunctionOf("ThreadPool", FALSE, 270, FALSE,
                     <<StNew("threadIds", TRUE), StNew("taskQueue", TRUE),
                       StNew("priorityQueue", TRUE)>>),
          FunctionOf("~ThreadPool", TRUE, 290, FALSE, <<StCall("shutdown")>>),
          <<FunctionOf("releaseQueues", FALSE, 276, FALSE,
                       <<StDelete("taskQueue", TRUE), StDelete("priorityQueue", TRUE)>>),
            FunctionOf("releaseThreads", FALSE, 281, TRUE, <<StDelete("threadIds", TRUE)>>),
            FunctionOf("releaseAll", FALSE, 283, FALSE,
                       <<StCall("releaseQueues"), StCall("releaseThreads")>>),
            FunctionOf("shutdown", FALSE, 288, TRUE, <<StCall("releaseAll")>>)>>)

\* The MultiLevel class of the multi-level test file.
MultiLevel ==
    Class("MultiLevel", "multi_level_test.cpp", <<Member("data", TRUE, 5)>>,
          FunctionOf("MultiLevel", FALSE, 8, TRUE, <<StNew("data", TRUE)>>),
          FunctionOf("~MultiLevel", TRUE, 18, FALSE, <<StCall("outerCleanup")>>),
          <<FunctionOf("innerCleanup", FALSE, 10, FALSE, <<StDelete("data", TRUE)>>),
            FunctionOf("outerCleanup", FALSE, 14, FALSE, <<StCall("innerCleanup")>>)>>)

SampleClasses ==
    {BasicLeak, DeepNestedCleanup, ReassignmentLeak, NoDestructor, ThreadPool,
     MultiLevel}

(***************************************************************************)
(* Lexer (package parser, lexer.go).  The input is a string of bytes; a    *)
(* byte is a string of length one, and positions count from 0 as in the    *)
(* source.                                                                 *)
(***************************************************************************)

TokenEOF == 0
TokenIdent == 1
TokenNumber == 2
TokenString == 3
TokenKeyword == 4
TokenOperator == 5
TokenPunctuation == 6

Token(type, value, line, column) ==
    [Type |-> type, Value |-> value, Line |-> line, Column |-> column]

keywords ==
    {"class", "struct", "public", "private", "protected",
     "new", "delete", "virtual", "const", "static",
     "void", "int", "char", "float", "double",
     "bool", "long", "short", "unsigned", "signed",
     "if", "else", "for", "while", "do",
     "return", "nullptr", "NULL", "this",
     "template", "typename", "namespace", "using"}

\* unicode.IsLetter and unicode.IsDigit on the ASCII bytes.
IsLetter(ch) ==
    ch \in {"a", "b", "c", "d", "e", "f", "g", "h", "i", "j", "k", "l", "m",
            "n", "o", "p", "q", "r", "s", "t", "u", "v", "w", "x", "y", "z",
            "A", "B", "C", "D", "E", "F", "G", "H", "I", "J", "K", "L", "M",
            "N", "O", "P", "Q", "R", "S", "T", "U", "V", "W", "X", "Y", "Z"}

IsDigit(ch) == ch \in {"0", "1", "2", "3", "4", "5", "6", "7", "8", "9"}

NewLexer(input) ==
    [input |-> input, pos |-> 0, line |-> 1, column |-> 1, tokens |-> <<>>]

\* l.input[l.pos], read only where the source has checked l.pos.
cur(l) == SubSeq(l.input, l.pos + 1, l.pos + 1)

advance(l) ==
    IF l.pos < Len(l.input)
    THEN IF cur(l) = "\n"
         THEN [l EXCEPT !.line = @ + 1, !.column = 1, !.pos = @ + 1]
         ELSE [l EXCEPT !.column = @ + 1, !.pos = @ + 1]
    ELSE l

\* The byte after the current one; the source's 0 byte is the empty string.
peek(l) ==
    IF l.pos + 1 < Len(l.input)
    THEN SubSeq(l.input, l.pos + 2, l.pos + 2)
    ELSE ""

addToken(l, tokenType, value) ==
    [l EXCEPT !.tokens = Append(@, Token(tokenType, value, l.line, l.column))]

RECURSIVE skipWhitespaceAndComments(_)
skipWhitespaceAndComments(l) ==
    LET RECURSIVE skipLineComment(_)
        skipLineComment(c) ==
            IF c.pos < Len(c.input) /\ cur(c) # "\n"
            THEN skipLineComment(advance(c))
            ELSE c
        RECURSIVE skipBlockComment(_)
        skipBlockComment(c) ==
            IF c.pos < Len(c.input) - 1
            THEN IF cur(c) = "*" /\ peek(c) = "/"
                 THEN advance(advance(c))
                 ELSE skipBlockComment(advance(c))
            ELSE c
    IN  IF l.pos < Len(l.input)
        THEN LET ch == cur(l)
             IN  IF ch \in {" ", "\t", "\r", "\n"}
                 THEN skipWhitespaceAndComments(advance(l))
                 ELSE IF ch = "/" /\ peek(l) = "/"
                 THEN skipWhitespaceAndComments(skipLineComment(l))
                 ELSE IF ch = "/" /\ peek(l) = "*"
                 THEN skipWhitespaceAndComments(skipBlockComment(advance(advance(l))))
                 ELSE l
        ELSE l

RECURSIVE skipPreprocessor(_)
skipPreprocessor(l) ==
    IF l.pos < Len(l.input) /\ cur(l) # "\n"
    THEN IF cur(l) = "\\" /\ peek(l) = "\n"
         THEN skipPreprocessor(advance(advance(l)))
         ELSE skipPreprocessor(advance(l))
    ELSE l

\* sb is the strings.Builder of readString.
readString(l, quote) ==
    LET RECURSIVE readStringLoop(_, _)
        readStringLoop(c, sb) ==
            IF c.pos < Len(c.input)
            THEN LET ch == cur(c)
                 IN  IF ch = "\\" /\ c.pos + 1 < Len(c.input)
                     THEN LET c1 == advance(c)
                          IN  IF c1.pos < Len(c1.input)
                              THEN readStringLoop(advance(c1), sb \o ch \o cur(c1))
                              ELSE readStringLoop(c1, sb \o ch)
                     ELSE IF ch = quote
                     THEN [l |-> advance(c), sb |-> sb \o ch]
                     ELSE IF ch = "\n"
                     THEN [l |-> c, sb |-> sb]
                     ELSE readStringLoop(advance(c), sb \o ch)
            ELSE [l |-> c, sb |-> sb]
        r == readStringLoop(advance(l), quote)
    IN  [r.l EXCEPT !.tokens = Append(@, Token(TokenString, r.sb, l.line, l.column))]

readIdentifier(l) ==
    LET RECURSIVE readIdentifierLoop(_)
        readIdentifierLoop(c) ==
            IF c.pos < Len(c.input)
                  /\ (IsLetter(cur(c)) \/ IsDigit(cur(c)) \/ cur(c) = "_")
            THEN readIdentifierLoop(advance(c))
            ELSE c
        e == readIdentifierLoop(l)
        value == SubSeq(l.input, l.pos + 1, e.pos)
        tokenType == IF value \in keywords THEN TokenKeyword ELSE TokenIdent
    IN  [e EXCEPT !.tokens = Append(@, Token(tokenType, value, l.line, l.column))]

readNumber(l) ==
    LET RECURSIVE readNumberLoop(_)
        readNumberLoop(c) ==
            IF c.pos < Len(c.input)
                  /\ (\/ IsDigit(cur(c))
                      \/ cur(c) \in {".", "x", "X"}
                      \/ cur(c) \in {"a", "b", "c", "d", "e", "f"}
                      \/ cur(c) \in {"A", "B", "C", "D", "E", "F"})
            THEN readNumberLoop(advance(c))
            ELSE c
        e == readNumberLoop(l)
    IN  [e EXCEPT !.tokens =
            Append(@, Token(TokenNumber, SubSeq(l.input, l.pos + 1, e.pos),
                            l.line, l.column))]

isOperator(ch) ==
    ch \in {"+", "-", "*", "/", "=", "<", ">", "!", "&", "|", "^", "%", "~"}

readOperator(l) ==
    LET two == IF l.pos + 1 < Len(l.input)
               THEN SubSeq(l.input, l.pos + 1, l.pos + 2)
               ELSE ""
    IN  IF two \in {"::", "->", "==", "!=", "<=", ">=", "&&", "||",
                    "++", "--", "+=", "-=", "*=", "/="}
        THEN [advance(advance(l)) EXCEPT !.tokens =
                Append(@, Token(TokenOperator, two, l.line, l.column))]
        ELSE LET e == advance(l)
             IN  [e EXCEPT !.tokens =
                    Append(@, Token(TokenOperator,
                                    SubSeq(l.input, l.pos + 1, e.pos),
                                    l.line, l.column))]

isPunctuation(ch) ==
    ch \in {"{", "}", "(", ")", "[", "]", ";", ",", ":", "."}

\* One iteration of the loop of Tokenize whose default case forgets to
\* advance.
TokenizeIteration_DefaultStays(l0) ==
    LET l == skipWhitespaceAndComments(l0)
    IN  IF l.pos >= Len(l.input) THEN l
        ELSE LET ch == cur(l)
             IN  IF ch = ":" /\ peek(l) = ":"
                 THEN advance(advance(addToken(l, TokenOperator, "::")))
                 ELSE IF ch = "\"" \/ ch = "'" THEN readString(l, ch)
                 ELSE IF ch = "#" THEN skipPreprocessor(l)
                 ELSE IF IsLetter(ch) \/ ch = "_" THEN readIdentifier(l)
                 ELSE IF IsDigit(ch) THEN readNumber(l)
                 ELSE IF isOperator(ch) THEN readOperator(l)
                 ELSE IF isPunctuation(ch)
                 THEN advance(addToken(l, TokenPunctuation, ch))
                 ELSE l

\* One iteration of the loop of Tokenize.
TokenizeIteration(l0) ==
    LET l == skipWhitespaceAndComments(l0)
    IN  IF l.pos >= Len(l.input) THEN l
        ELSE LET ch == cur(l)
             IN  IF ch = ":" /\ peek(l) = ":"
                 THEN advance(advance(addToken(l, TokenOperator, "::")))
                 ELSE IF ch = "\"" \/ ch = "'" THEN readString(l, ch)
                 ELSE IF ch = "#" THEN skipPreprocessor(l)
                 ELSE IF IsLetter(ch) \/ ch = "_" THEN readIdentifier(l)
                 ELSE IF IsDigit(ch) THEN readNumber(l)
                 ELSE IF isOperator(ch) THEN readOperator(l)
                 ELSE IF isPunctuation(ch)
                 THEN advance(addToken(l, TokenPunctuation, ch))
                 ELSE advance(l)

\* The append after the loop of Tokenize.
TokenizeEnd(l) ==
    [l EXCEPT !.tokens = Append(@, Token(TokenEOF, "", l.line, l.column))]

Tokenize(input) ==
    LET RECURSIVE TokenizeFrom(_)
        TokenizeFrom(l) ==
            IF l.pos < Len(l.input)
            THEN TokenizeFrom(TokenizeIteration(l))
            ELSE TokenizeEnd(l)
    IN  TokenizeFrom(NewLexer(input)).tokens

(***************************************************************************)
(* Parser (package parser, parser.go).  Token positions count from 0 as    *)
(* in the source.  A sub-parser that returns a value returns it together   *)
(* with the parser it leaves behind; a nil pointer is Nil.                 *)
(***************************************************************************)

\* The Parser that ParseFile builds.
NewParser(tokens, file) ==
    [tokens |-> tokens, pos |-> 0, file |-> file, classes |-> <<>>]

\* A local variable of the source: F is the code that follows the
\* assignment of x to it.
With(x, F(_)) == F(x)

\* p.tokens[i]
tok(p, i) == p.tokens[i + 1]

current(p) ==
    IF p.pos < Len(p.tokens) THEN tok(p, p.pos) ELSE Token(TokenEOF, "", 0, 0)

\* Parser.advance
advanceTok(p) ==
    IF p.pos < Len(p.tokens) THEN [p EXCEPT !.pos = @ + 1] ELSE p

isAtEnd(p) == p.pos >= Len(p.tokens) \/ tok(p, p.pos).Type = TokenEOF

check(p, tokenType) == ~isAtEnd(p) /\ current(p).Type = tokenType

checkValue(p, value) == ~isAtEnd(p) /\ current(p).Value = value

checkKeyword(p, keyword) == check(p, TokenKeyword) /\ current(p).Value = keyword

\* The parser after matchValue / matchKeyword; what they return is
\* checkValue / checkKeyword of the parser before.
matchValue(p, value) == IF checkValue(p, value) THEN advanceTok(p) ELSE p

matchKeyword(p, keyword) == IF checkKeyword(p, keyword) THEN advanceTok(p) ELSE p

\* A Function with a name and a start line and nothing read from a body:
\* what the parser has for a declaration, and before it reads a body.
FunctionDecl(name, isDestructor, startLine) ==
    [Name |-> name, IsDestructor |-> isDestructor, StartLine |-> startLine,
     EndLine |-> 0, Allocations |-> <<>>, Deallocations |-> <<>>,
     MethodCalls |-> <<>>, Aliases |-> <<>>]

\* parenAfterScope is the inner loop: "(" or ";" within four tokens after
\* the "::" at offset i.
isOutOfClassMethod(p) ==
    LET RECURSIVE parenAfterScope(_, _)
        parenAfterScope(i, j) ==
            IF j < i + 5 /\ p.pos + j < Len(p.tokens)
            THEN IF tok(p, p.pos + j).Value = "(" THEN "true"
                 ELSE IF tok(p, p.pos + j).Value = ";" THEN "false"
                 ELSE parenAfterScope(i, j + 1)
            ELSE "none"
        RECURSIVE isOutOfClassMethodFrom(_)
        isOutOfClassMethodFrom(i) ==
            IF i < 10 /\ p.pos + i < Len(p.tokens)
            THEN With(IF tok(p, p.pos + i).Value = "::"
                      THEN parenAfterScope(i, i + 1) ELSE "none",
                      LAMBDA r :
                         IF r = "true" THEN TRUE
                         ELSE IF r = "false" THEN FALSE
                         ELSE IF tok(p, p.pos + i).Value \in {";", "{", "}"}
                         THEN FALSE
                         ELSE isOutOfClassMethodFrom(i + 1))
            ELSE FALSE
    IN  isOutOfClassMethodFrom(0)

checkPointerAlias(p, targetName, line) ==
    IF p.pos + 3 >= Len(p.tokens) THEN Nil
    ELSE IF tok(p, p.pos + 1).Value # "=" THEN Nil
    ELSE IF tok(p, p.pos + 2).Type # TokenIdent THEN Nil
    ELSE IF tok(p, p.pos + 2).Value = "new" THEN Nil
    ELSE IF tok(p, p.pos + 3).Value \in {";", "}", ","}
    THEN PointerAlias(targetName, tok(p, p.pos + 2).Value, line)
    ELSE Nil

findAssignmentTarget(p) ==
    LET RECURSIVE targetBefore(_, _)
        targetBefore(i, j) ==
            IF j >= 0 /\ j > i - 5
            THEN IF tok(p, j).Type = TokenIdent /\ tok(p, j).Value # "this"
                 THEN tok(p, j).Value
                 ELSE targetBefore(i, j - 1)
            ELSE ""
        RECURSIVE findAssignmentTargetFrom(_)
        findAssignmentTargetFrom(i) ==
            IF i >= 0 /\ i > p.pos - 10
            THEN With(IF tok(p, i).Value = "=" THEN targetBefore(i, i - 1) ELSE "",
                      LAMBDA v :
                         IF v # "" THEN v ELSE findAssignmentTargetFrom(i - 1))
            ELSE ""
    IN  findAssignmentTargetFrom(p.pos - 1)

\* skipStatement is the loop that skips to the end of the statement.
parseAllocation(p0) ==
    LET RECURSIVE skipStatement(_, _)
        skipStatement(q, isArray) ==
            IF ~isAtEnd(q) /\ ~checkValue(q, ";") /\ ~checkValue(q, "{")
            THEN skipStatement(advanceTok(q), isArray \/ checkValue(q, "["))
            ELSE [p |-> q, isArray |-> isArray]
    IN  With(advanceTok(p0), LAMBDA p :
        With(findAssignmentTarget(p), LAMBDA varName :
            IF varName = "" THEN [p |-> p, alloc |-> Nil]
            ELSE With(skipStatement(p, checkValue(p, "[")), LAMBDA s :
                    [p |-> s.p,
                     alloc |-> Allocation(varName, s.isArray, current(p0).Line)])))

parseDeallocation(p0) ==
    With(advanceTok(p0), LAMBDA p1 :
    With(checkValue(p1, "["), LAMBDA isArray :
    With(IF isArray THEN matchValue(advanceTok(p1), "]") ELSE p1, LAMBDA p2 :
    With(IF checkKeyword(p2, "this")
         THEN With(advanceTok(p2), LAMBDA p3 :
                IF checkValue(p3, "->")
                THEN With(advanceTok(p3), LAMBDA p4 :
                        [p |-> p4,
                         varName |-> IF check(p4, TokenIdent)
                                     THEN current(p4).Value ELSE ""])
                ELSE [p |-> p3, varName |-> ""])
         ELSE [p |-> p2,
               varName |-> IF check(p2, TokenIdent) THEN current(p2).Value ELSE ""],
         LAMBDA r :
            IF r.varName = "" THEN [p |-> r.p, dealloc |-> Nil]
            ELSE [p |-> r.p,
                  dealloc |-> Deallocation(r.varName, isArray, current(p0).Line)]))))

\* One iteration of the loop of parseFunctionBody.
functionBodyIteration(p, fn, braceCount) ==
    IF checkValue(p, "{")
    THEN [p |-> advanceTok(p), fn |-> fn, braceCount |-> braceCount + 1]
    ELSE IF checkValue(p, "}")
    THEN [p |-> advanceTok(p),
          fn |-> IF braceCount - 1 = 0
                 THEN [fn EXCEPT !.EndLine = current(p).Line] ELSE fn,
          braceCount |-> braceCount - 1]
    ELSE IF checkKeyword(p, "new")
    THEN With(parseAllocation(p), LAMBDA r :
            [p |-> r.p,
             fn |-> IF r.alloc # Nil
                    THEN [fn EXCEPT !.Allocations = Append(@, r.alloc)] ELSE fn,
             braceCount |-> braceCount])
    ELSE IF checkKeyword(p, "delete")
    THEN With(parseDeallocation(p), LAMBDA r :
            [p |-> r.p,
             fn |-> IF r.dealloc # Nil
                    THEN [fn EXCEPT !.Deallocations = Append(@, r.dealloc)] ELSE fn,
             braceCount |-> braceCount])
    ELSE IF check(p, TokenIdent)
    THEN With(IF p.pos + 1 < Len(p.tokens) /\ tok(p, p.pos + 1).Value = "("
              THEN [fn EXCEPT !.MethodCalls = Append(@, current(p).Value)] ELSE fn,
              LAMBDA fn1 :
         With(checkPointerAlias(p, current(p).Value, current(p).Line),
              LAMBDA alias :
                [p |-> advanceTok(p),
                 fn |-> IF alias # Nil
                        THEN [fn1 EXCEPT !.Aliases = Append(@, alias)] ELSE fn1,
                 braceCount |-> braceCount]))
    ELSE [p |-> advanceTok(p), fn |-> fn, braceCount |-> braceCount]

parseFunctionBody(p, fn) ==
    LET RECURSIVE functionBodyLoop(_, _, _)
        functionBodyLoop(q, f, braceCount) ==
            IF ~isAtEnd(q) /\ braceCount > 0
            THEN With(functionBodyIteration(q, f, braceCount), LAMBDA r :
                    functionBodyLoop(r.p, r.fn, r.braceCount))
            ELSE [p |-> q, fn |-> f]
    IN  IF ~checkValue(p, "{") THEN [p |-> p, fn |-> fn]
        ELSE functionBodyLoop(advanceTok(p), fn, 1)

\* The loops that skip a parameter list with nested parentheses, a
\* parameter list up to the first ")", and an initializer list or an
\* inheritance declaration.
RECURSIVE skipParens(_, _)
skipParens(p, parenCount) ==
    IF ~isAtEnd(p) /\ parenCount > 0
    THEN skipParens(advanceTok(p),
                    IF checkValue(p, "(") THEN parenCount + 1
                    ELSE IF checkValue(p, ")") THEN parenCount - 1
                    ELSE parenCount)
    ELSE p

RECURSIVE skipToCloseParen(_)
skipToCloseParen(p) ==
    IF ~isAtEnd(p) /\ ~checkValue(p, ")")
    THEN skipToCloseParen(advanceTok(p))
    ELSE p

RECURSIVE skipToBraceOrSemi(_)
skipToBraceOrSemi(p) ==
    IF ~isAtEnd(p) /\ ~checkValue(p, "{") /\ ~checkValue(p, ";")
    THEN skipToBraceOrSemi(advanceTok(p))
    ELSE p

\* What follows the parameter list in parseDestructor, parseConstructor
\* and parseMethod: a declaration ends at the ";", a definition has a body.
declarationOrBody(p, fn) ==
    IF checkValue(p, ";") THEN [p |-> advanceTok(p), fn |-> fn]
    ELSE IF checkValue(p, "{") THEN parseFunctionBody(p, fn)
    ELSE [p |-> p, fn |-> fn]

\* collectClassName is the loop that looks for "::"; findClass is the index
\* in classes of the first class named className, 0 if none; attachMethod
\* is the end of the function: find or create the class, attach fn.
parseOutOfClassMethod(p0) ==
    LET RECURSIVE collectClassName(_, _)
        collectClassName(p, className) ==
            IF ~isAtEnd(p) /\ ~checkValue(p, "::")
            THEN collectClassName(advanceTok(p),
                                  IF check(p, TokenIdent) THEN current(p).Value
                                  ELSE className)
            ELSE [p |-> p, className |-> className]
        findClass(cs, className) ==
            IF \E i \in DOMAIN cs : cs[i].Name = className
            THEN CHOOSE i \in DOMAIN cs :
                    /\ cs[i].Name = className
                    /\ \A j \in DOMAIN cs : cs[j].Name = className => i <= j
            ELSE 0
        attachMethod(p, className, methodName, isDestructor, fn) ==
            With(findClass(p.classes, className), LAMBDA found :
            With(IF found = 0
                 THEN Append(p.classes,
                             Class(className, p.file, <<>>, Nil, Nil, <<>>))
                 ELSE p.classes,
                 LAMBDA cs :
            With(IF found = 0 THEN Len(cs) ELSE found, LAMBDA t :
                [p EXCEPT !.classes =
                    IF isDestructor THEN [cs EXCEPT ![t].Destructor = fn]
                    ELSE IF methodName = className
                    THEN [cs EXCEPT ![t].Constructor = fn]
                    ELSE [cs EXCEPT ![t].Methods = Append(@, fn)]])))
    IN  With(collectClassName(p0, ""), LAMBDA c :
        IF c.className = "" \/ ~checkValue(c.p, "::") THEN c.p
        ELSE
        With(advanceTok(c.p), LAMBDA p1 :
        With(checkValue(p1, "~"), LAMBDA isDestructor :
        With(IF isDestructor THEN advanceTok(p1) ELSE p1, LAMBDA p2 :
        IF ~check(p2, TokenIdent) THEN p2
        ELSE
        With(advanceTok(p2), LAMBDA p3 :
        IF ~checkValue(p3, "(") THEN p3
        ELSE
        With(skipParens(advanceTok(p3), 1), LAMBDA p4 :
        With(IF checkValue(p4, ":") /\ ~isDestructor
             THEN skipToBraceOrSemi(advanceTok(p4))
             ELSE p4,
             LAMBDA p5 :
        IF ~checkValue(p5, "{") THEN p5
        ELSE
        With(parseFunctionBody(
                p5, FunctionDecl(current(p2).Value, isDestructor, current(p0).Line)),
             LAMBDA r :
                attachMethod(r.p, c.className, current(p2).Value,
                             isDestructor, r.fn)))))))))

isDestructorStart(p, className) ==
    \/ /\ checkValue(p, "~")
       /\ p.pos + 1 < Len(p.tokens)
       /\ tok(p, p.pos + 1).Value = className
    \/ /\ checkKeyword(p, "virtual")
       /\ p.pos + 1 < Len(p.tokens)
       /\ tok(p, p.pos + 1).Value = "~"

isConstructorStart(p, className) ==
    /\ check(p, TokenIdent)
    /\ current(p).Value = className
    /\ p.pos + 1 < Len(p.tokens)
    /\ tok(p, p.pos + 1).Value = "("

parseDestructor(p0, className) ==
    With(advanceTok(matchValue(matchKeyword(p0, "virtual"), "~")), LAMBDA p2 :
        IF ~checkValue(p2, "(") THEN [p |-> p2, fn |-> Nil]
        ELSE declarationOrBody(
                matchValue(skipToCloseParen(advanceTok(p2)), ")"),
                FunctionDecl("~" \o className, TRUE, current(p0).Line)))

parseConstructor(p0, className) ==
    With(advanceTok(p0), LAMBDA p1 :
        IF ~checkValue(p1, "(") THEN [p |-> p1, fn |-> Nil]
        ELSE With(matchValue(skipToCloseParen(advanceTok(p1)), ")"), LAMBDA p2 :
                declarationOrBody(
                    IF checkValue(p2, ":")
                    THEN skipToBraceOrSemi(advanceTok(p2))
                    ELSE p2,
                    FunctionDecl(className, FALSE, current(p0).Line))))

\* skipToSignature skips the return type and modifiers, skipQualifiers
\* what follows the parameter list.
parseMethod(p0) ==
    LET RECURSIVE skipToSignature(_)
        skipToSignature(p) ==
            IF ~isAtEnd(p) /\ ~checkValue(p, "(") /\ ~checkValue(p, ";")
                  /\ ~checkValue(p, "{")
            THEN skipToSignature(advanceTok(p))
            ELSE p
        RECURSIVE skipQualifiers(_)
        skipQualifiers(p) ==
            IF checkKeyword(p, "const") \/ check(p, TokenIdent)
            THEN IF checkValue(p, "{") \/ checkValue(p, ";") THEN p
                 ELSE skipQualifiers(advanceTok(p))
            ELSE p
    IN  With(skipToSignature(p0), LAMBDA p1 :
        IF checkValue(p1, ";") THEN [p |-> advanceTok(p1), fn |-> Nil]
        ELSE IF ~checkValue(p1, "(") THEN [p |-> p1, fn |-> Nil]
        ELSE declarationOrBody(
                skipQualifiers(skipParens(advanceTok(p1), 1)),
                FunctionDecl(IF p1.pos > 0 THEN tok(p1, p1.pos - 1).Value ELSE "",
                             FALSE, current(p0).Line)))

isMemberDeclaration(p) ==
    LET RECURSIVE isMemberDeclarationFrom(_, _, _)
        isMemberDeclarationFrom(i, hasPointer, hasIdent) ==
            IF i < 10 /\ p.pos + i < Len(p.tokens)
            THEN IF tok(p, p.pos + i).Value = ";" THEN hasPointer /\ hasIdent
                 ELSE IF tok(p, p.pos + i).Value \in {"(", "{"} THEN FALSE
                 ELSE isMemberDeclarationFrom(
                        i + 1,
                        hasPointer \/ tok(p, p.pos + i).Value = "*",
                        hasIdent \/ tok(p, p.pos + i).Type = TokenIdent)
            ELSE hasPointer /\ hasIdent
    IN  isMemberDeclarationFrom(0, FALSE, FALSE)

\* collectDeclaration is the loop that collects the tokens up to the
\* semicolon, memberFrom the loop over the collected tokens.
parseMember(p0) ==
    LET RECURSIVE collectDeclaration(_, _)
        collectDeclaration(p, tokens) ==
            IF ~isAtEnd(p) /\ ~checkValue(p, ";")
            THEN collectDeclaration(advanceTok(p), Append(tokens, current(p)))
            ELSE [p |-> p, tokens |-> tokens]
        RECURSIVE memberFrom(_, _, _)
        memberFrom(tokens, i, m) ==
            IF i > Len(tokens) THEN m
            ELSE IF tokens[i].Value = "*"
            THEN memberFrom(tokens, i + 1, [m EXCEPT !.isPointer = TRUE])
            ELSE IF tokens[i].Value = "["
            THEN memberFrom(tokens, i + 1, [m EXCEPT !.isArray = TRUE])
            ELSE IF tokens[i].Type = TokenIdent
                     /\ (\/ i = Len(tokens)
                         \/ tokens[i + 1].Value = "["
                         \/ tokens[i + 1].Value = "=")
            THEN memberFrom(tokens, i + 1, [m EXCEPT !.varName = tokens[i].Value])
            ELSE memberFrom(tokens, i + 1, m)
    IN  With(collectDeclaration(p0, <<>>), LAMBDA c :
        With(memberFrom(c.tokens, 1,
                        [isPointer |-> FALSE, isArray |-> FALSE, varName |-> ""]),
             LAMBDA m :
                [p |-> matchValue(c.p, ";"),
                 member |-> IF Len(c.tokens) < 2 THEN Nil
                            ELSE IF ~m.isPointer \/ m.varName = "" THEN Nil
                            ELSE Member(m.varName, m.isPointer, current(p0).Line)]))

isFunctionStart(p) ==
    LET RECURSIVE isFunctionStartFrom(_)
        isFunctionStartFrom(i) ==
            IF i < 15 /\ p.pos + i < Len(p.tokens)
            THEN IF tok(p, p.pos + i).Value = ";" THEN FALSE
                 ELSE IF tok(p, p.pos + i).Value = "(" THEN TRUE
                 ELSE IF tok(p, p.pos + i).Value \in {"{", "}"} THEN FALSE
                 ELSE isFunctionStartFrom(i + 1)
            ELSE FALSE
    IN  isFunctionStartFrom(0)

\* One iteration of the class-body loop of parseClass.
classBodyIteration(p, class, braceCount) ==
    IF checkValue(p, "{")
    THEN [p |-> advanceTok(p), class |-> class, braceCount |-> braceCount + 1]
    ELSE IF checkValue(p, "}")
    THEN [p |-> advanceTok(p), class |-> class, braceCount |-> braceCount - 1]
    ELSE IF checkKeyword(p, "public") \/ checkKeyword(p, "private")
              \/ checkKeyword(p, "protected")
    THEN [p |-> matchValue(advanceTok(p), ":"), class |-> class,
          braceCount |-> braceCount]
    ELSE IF isDestructorStart(p, class.Name)
    THEN With(parseDestructor(p, class.Name), LAMBDA r :
            [p |-> r.p,
             class |-> IF r.fn # Nil
                       THEN [class EXCEPT !.Destructor = r.fn] ELSE class,
             braceCount |-> braceCount])
    ELSE IF isConstructorStart(p, class.Name)
    THEN With(parseConstructor(p, class.Name), LAMBDA r :
            [p |-> r.p,
             class |-> IF r.fn # Nil
                       THEN [class EXCEPT !.Constructor = r.fn] ELSE class,
             braceCount |-> braceCount])
    ELSE IF isMemberDeclaration(p)
    THEN With(parseMember(p), LAMBDA r :
            [p |-> r.p,
             class |-> IF r.member # Nil
                       THEN [class EXCEPT !.Members = Append(@, r.member)]
                       ELSE class,
             braceCount |-> braceCount])
    ELSE IF isFunctionStart(p)
    THEN With(parseMethod(p), LAMBDA r :
            [p |-> r.p,
             class |-> IF r.fn # Nil
                       THEN [class EXCEPT !.Methods = Append(@, r.fn)]
                       ELSE class,
             braceCount |-> braceCount])
    ELSE [p |-> advanceTok(p), class |-> class, braceCount |-> braceCount]

parseClass(p0) ==
    LET RECURSIVE classBodyLoop(_, _, _)
        classBodyLoop(p, class, braceCount) ==
            IF ~isAtEnd(p) /\ braceCount > 0
            THEN With(classBodyIteration(p, class, braceCount), LAMBDA r :
                    classBodyLoop(r.p, r.class, r.braceCount))
            ELSE [p |-> p, class |-> class]
    IN  IF ~check(p0, TokenIdent) THEN [p |-> p0, class |-> Nil]
        ELSE With(skipToBraceOrSemi(advanceTok(p0)), LAMBDA p1 :
                IF checkValue(p1, ";") THEN [p |-> p1, class |-> Nil]
                ELSE IF ~checkValue(p1, "{") THEN [p |-> p1, class |-> Nil]
                ELSE classBodyLoop(
                        advanceTok(p1),
                        Class(current(p0).Value, p1.file, <<>>, Nil, Nil, <<>>),
                        1))

\* One iteration of the loop of parse.
parseIteration(p) ==
    IF checkKeyword(p, "class") \/ checkKeyword(p, "struct")
    THEN With(parseClass(advanceTok(p)), LAMBDA r :
            IF r.class # Nil
            THEN [r.p EXCEPT !.classes = Append(@, r.class)]
            ELSE r.p)
    ELSE IF isOutOfClassMethod(p)
    THEN parseOutOfClassMethod(p)
    ELSE advanceTok(p)

(***************************************************************************)
(* AnalyzeClasses: NewAnalyzer, AddClasses, Analyze                        *)
(***************************************************************************)

Init ==
    /\ pc = "new"
    /\ classes = <<>>
    /\ leaks = <<>>
    /\ files = <<>>
    /\ next = 1
    /\ registry = <<>>
    /\ skipped = <<>>
    /\ reportErr = FALSE
    /\ exitCode = <<>>
    /\ lexer = NewLexer("")
    /\ parser = NewParser(<<>>, "")

AddClasses(cs) ==
    /\ pc = "new"
    /\ classes' = classes \o cs
    /\ pc' = "added"
    /\ UNCHANGED leaks
    /\ UNCHANGED mainVars
    /\ UNCHANGED frontVars

AddRuleClass ==
    /\ pc = "new"
    /\ \E c \in RuleClasses : AddClasses(<<c>>)

AddAliasClass ==
    /\ pc = "new"
    /\ \E c \in AliasClasses : AddClasses(<<c>>)

AddMethodClass ==
    /\ pc = "new"
    /\ \E c \in MethodClasses : AddClasses(<<c>>)

AddChainClass ==
    /\ pc = "new"
    /\ \E c \in ChainClasses : AddClasses(<<c>>)

AddSampleClass ==
    /\ pc = "new"
    /\ \E c \in SampleClasses : AddClasses(<<c>>)

Analyze ==
    /\ pc = "added"
    /\ \E orders \in [DOMAIN classes -> UNION {RangeOrders(classes[i]) : i \in DOMAIN classes}] :
        /\ \A i \in DOMAIN classes : orders[i] \in RangeOrders(classes[i])
        /\ leaks' = AnalyzeFrom(classes, orders, 1)
    /\ pc' = "done"
    /\ UNCHANGED classes
    /\ UNCHANGED mainVars
    /\ UNCHANGED frontVars

Next ==
    \/ AddRuleClass
    \/ AddAliasClass
    \/ AddMethodClass
    \/ AddChainClass
    \/ AddSampleClass
    \/ Analyze

Spec == Init /\ [][Next]_vars

(***************************************************************************)
(* main (cmd/leakcheck): scan, parse every file into the registry, merge,  *)
(* analyze, report, exit                                                   *)
(***************************************************************************)

MaxFiles == 2

\* What ParseFile returns for a file: its classes, or a read error.
SourceFile(path, cs) == [path |-> path, classes |-> cs]

\* The header and the implementation of DataManager.
DataManagerHeader ==
    SourceFile("/t/cross_file_test.h",
        <<Class("DataManager", "/t/cross_file_test.h",
                <<Member("buffer", TRUE, 8), Member("name", TRUE, 9)>>,
                FunctionDecl("DataManager", FALSE, 12),
                FunctionDecl("~DataManager", TRUE, 13),
                <<FunctionDecl("processData", FALSE, 15)>>)>>)

DataManagerImpl ==
    SourceFile("/t/cross_file_test.cpp",
        <<Class("DataManager", "/t/cross_file_test.cpp", <<>>,
                FunctionOf("DataManager", FALSE, 5, FALSE,
                           <<StNew("buffer", TRUE), StNew("name", TRUE)>>),
                [FunctionOf("DataManager", TRUE, 10, FALSE, <<StDelete("buffer", TRUE)>>)
                    EXCEPT !.EndLine = 13],
                <<[FunctionOf("processData", FALSE, 15, FALSE, <<>>)
                    EXCEPT !.EndLine = 17]>>)>>)

\* A class written in a header or inline in one file: in-class functions.
InClass(name, path, members, ctor, dtor, methods) ==
    Class(name, path, members, ctor, dtor, methods)

\* The placeholder class parseOutOfClassMethod builds from Name::f
\* definitions: no members, the destructor named without the tilde.
OutOfClass(name, path, ctor, dtor, methods) ==
    Class(name, path, <<>>, ctor, dtor, methods)

SourceFiles ==
    LET p == Member("p", TRUE, 2)
        q == Member("q", TRUE, 3)
        cDecl == FunctionDecl("C", FALSE, 5)
        dDecl == FunctionDecl("~C", TRUE, 6)
        mDecl == FunctionDecl("m1", FALSE, 7)
    IN  { SourceFile("/s/c.h",
            <<InClass("C", "/s/c.h", <<p, q>>, cDecl, dDecl, <<mDecl>>)>>),
          SourceFile("/s/c.h",
            <<InClass("C", "/s/c.h", <<p>>,
                      FunctionOf("C", FALSE, 5, TRUE, <<StNew("p", FALSE)>>),
                      Nil, <<>>)>>),
          SourceFile("/s/c.h",
            <<InClass("C", "/s/c.h", <<>>, Nil, dDecl, <<>>)>>),
          SourceFile("/s/c.cpp",
            <<OutOfClass("C", "/s/c.cpp",
                         FunctionOf("C", FALSE, 10, FALSE,
                                    <<StNew("p", TRUE), StNew("q", TRUE)>>),
                         FunctionOf("C", TRUE, 20, FALSE, <<StDelete("p", TRUE)>>),
                         <<FunctionOf("m1", FALSE, 30, FALSE, <<>>)>>)>>),
          SourceFile("/s/c.cpp",
            <<OutOfClass("C", "/s/c.cpp",
                         FunctionOf("C", FALSE, 10, FALSE, <<StNew("p", FALSE)>>),
                         FunctionOf("C", TRUE, 20, FALSE, <<StCall("m1")>>),
                         <<FunctionOf("m1", FALSE, 30, FALSE,
                                      <<StDelete("p", FALSE)>>)>>)>>),
          SourceFile("/s/c.cpp",
            <<OutOfClass("C", "/s/c.cpp", Nil, Nil,
                         <<FunctionOf("m2", FALSE, 30, FALSE, <<StDelete("q", TRUE)>>),
                           FunctionOf("m1", FALSE, 40, FALSE,
                                      <<StDelete("p", FALSE)>>)>>)>>),
          SourceFile("/s/x.HPP",
            <<InClass("C", "/s/x.HPP", <<q>>, Nil, Nil, <<>>)>>),
          SourceFile("/s/c.cc",
            <<InClass("C", "/s/c.cc", <<p>>, Nil, Nil, <<>>)>>),
          SourceFile("/s/d.cc",
            <<InClass("D", "/s/d.cc", <<p, q>>,
                      FunctionOf("D", FALSE, 5, FALSE,
                                 <<StNew("p", FALSE), StNew("q", FALSE)>>),
                      FunctionOf("~D", TRUE, 9, TRUE, <<>>), <<>>)>>),
          SourceFile("/s/e.cxx", <<>>),
          DataManagerHeader,
          DataManagerImpl }

\* The file lists ScanPaths may return: absolute paths, each at most once.
FileLists ==
    {fs \in SeqsUpTo(SourceFiles, MaxFiles) :
        \A i, j \in DOMAIN fs : i # j => fs[i].path # fs[j].path}

\* main up to the parse loop: the scan fails (exit 1), finds no file
\* (exit 0), or returns the files and an empty registry is made.
MainScan ==
    /\ pc = "new"
    /\ \E scanFails \in BOOLEAN : \E fs \in FileLists :
        IF scanFails
        THEN /\ pc' = "exited" /\ exitCode' = <<1>> /\ UNCHANGED files
        ELSE IF Len(fs) = 0
        THEN /\ pc' = "exited" /\ exitCode' = <<0>> /\ UNCHANGED files
        ELSE /\ pc' = "parsing" /\ files' = fs /\ UNCHANGED exitCode
    /\ UNCHANGED <<classes, leaks, next, registry, skipped, reportErr>>
    /\ UNCHANGED frontVars

\* The parse loop giving up at the first file that cannot be read.
MainParseFile_StopOnError ==
    /\ pc = "parsing"
    /\ next <= Len(files)
    /\ \E readFails \in BOOLEAN :
        IF readFails
        THEN /\ skipped' = Append(skipped, files[next].path)
             /\ pc' = "exited"
             /\ exitCode' = <<1>>
             /\ UNCHANGED registry
        ELSE /\ registry' = registry \o files[next].classes
             /\ UNCHANGED <<skipped, pc, exitCode>>
    /\ next' = next + 1
    /\ UNCHANGED <<classes, leaks, files, reportErr>>
    /\ UNCHANGED frontVars

\* One iteration of the parse loop: ParseFile on files[next], then a warning
\* on a read error or registry.AddClasses on the classes parsed.
MainParseFile ==
    /\ pc = "parsing"
    /\ next <= Len(files)
    /\ \E readFails \in BOOLEAN :
        IF readFails
        THEN /\ skipped' = Append(skipped, files[next].path)
             /\ UNCHANGED registry
        ELSE /\ registry' = registry \o files[next].classes
             /\ UNCHANGED skipped
    /\ next' = next + 1
    /\ UNCHANGED <<pc, classes, leaks, files, reportErr, exitCode>>
    /\ UNCHANGED frontVars

\* registry.MergeClasses() after the loop.
MainMergeClasses ==
    /\ pc = "parsing"
    /\ next > Len(files)
    /\ \E order \in MergeOrders(registry) :
        classes' = MergeClasses(registry, order)
    /\ pc' = "merged"
    /\ UNCHANGED <<leaks, files, next, registry, skipped, reportErr, exitCode>>
    /\ UNCHANGED frontVars

\* analyzer.AnalyzeClasses(allClasses).
MainAnalyzeClasses ==
    /\ pc = "merged"
    /\ \E orders \in [DOMAIN classes -> UNION {RangeOrders(classes[i]) : i \in DOMAIN classes}] :
        /\ \A i \in DOMAIN classes : orders[i] \in RangeOrders(classes[i])
        /\ leaks' = AnalyzeFrom(classes, orders, 1)
    /\ pc' = "analyzed"
    /\ UNCHANGED <<classes, files, next, registry, skipped, reportErr, exitCode>>
    /\ UNCHANGED frontVars

\* Report and exit: exit 1 if the report cannot be written (only the JSON
\* report returns the write error) or if there is a leak, else 0.
MainReport ==
    /\ pc = "analyzed"
    /\ \E jsonFlag \in BOOLEAN : \E writeFails \in BOOLEAN :
        /\ reportErr' = (jsonFlag /\ writeFails)
        /\ exitCode' = IF reportErr' \/ Len(leaks) > 0 THEN <<1>> ELSE <<0>>
    /\ pc' = "exited"
    /\ UNCHANGED <<classes, leaks, files, next, registry, skipped>>
    /\ UNCHANGED frontVars

MainNext ==
    \/ MainScan
    \/ MainParseFile
    \/ MainMergeClasses
    \/ MainAnalyzeClasses
    \/ MainReport

MainSpec == Init /\ [][MainNext]_vars

(***************************************************************************)
(* Tokenize and ParseFile, one loop iteration at a time                    *)
(***************************************************************************)

MaxInput == 3
MaxTokens == 4

\* The bytes the bounded inputs are made of: white space, the bytes that
\* open comments, strings, directives and the scope operator, a letter, a
\* digit, operators, punctuation, and a byte of no class.
InputBytes ==
    {" ", "\n", "/", "*", ":", "\"", "\\", "#", "a", "1", "-", ">", ";", "@"}

RECURSIVE StringsUpTo(_, _, _)
StringsUpTo(parts, sep, n) ==
    IF n = 0 THEN {""}
    ELSE LET S == StringsUpTo(parts, sep, n - 1)
         IN  S \cup {s \o sep \o c : s \in S, c \in parts}

BoundedInputs == StringsUpTo(InputBytes, "", MaxInput)

\* The words the bounded token sequences are made of.
InputWords == {"class", "C", "{", "}", "(", ")", ";", "::", "~"}

BoundedSources == StringsUpTo(InputWords, " ", MaxTokens)

CrossFileTestH ==
    "// cross_file_test.h - Header file for cross-file analysis test\n"
    \o "\n"
    \o "#ifndef CROSS_FILE_TEST_H\n"
    \o "#define CROSS_FILE_TEST_H\n"
    \o "\n"
    \o "class DataManager {\n"
    \o "private:\n"
    \o "  int *buffer; // Pointer member declared in header\n"
    \o "  char *name;  // Another pointer member\n"
    \o "\n"
    \o "public:\n"
    \o "  DataManager();  // Constructor declared\n"
    \o "  ~DataManager(); // Destructor declared\n"
    \o "\n"
    \o "  void processData();\n"
    \o "};\n"
    \o "\n"
    \o "#endif\n"
    \o "\n"

CrossFileTestCpp ==
    "// cross_file_test.cpp - Implementation for cross-file analysis test\n"
    \o "\n"
    \o "#include \"cross_file_test.h\"\n"
    \o "\n"
    \o "DataManager::DataManager() {\n"
    \o "  buffer = new int[1024]; // Allocation in cpp\n"
    \o "  name = new char[256];   // Another allocation\n"
    \o "}\n"
    \o "\n"
    \o "DataManager::~DataManager() {\n"
    \o "  delete[] buffer; // Proper cleanup\n"
    \o "                   // name is NOT deleted - LEAK!\n"
    \o "}\n"
    \o "\n"
    \o "void DataManager::processData() {\n"
    \o "  // Process the buffer\n"
    \o "}\n"

MultiLevelTest ==
    "// multi_level_test.cpp - Test for multi-level method call tracking\n"
    \o "\n"
    \o "class MultiLevel {\n"
    \o "private:\n"
    \o "  int *data;\n"
    \o "\n"
    \o "public:\n"
    \o "  MultiLevel() { data = new int[100]; }\n"
    \o "\n"
    \o "  void innerCleanup() {\n"
    \o "    delete[] data; // Actual delete is 2 levels deep\n"
    \o "  }\n"
    \o "\n"
    \o "  void outerCleanup() {\n"
    \o "    innerCleanup(); // Calls inner\n"
    \o "  }\n"
    \o "\n"
    \o "  ~MultiLevel() {\n"
    \o "    outerCleanup(); // Destructor -> outer -> inner -> delete\n"
    \o "  }\n"
    \o "};\n"
    \o "\n"
    \o "// This should be CLEAN - multi-level tracking should find the delete\n"
    \o "\n"

\* A function that calls a function of the global namespace.
GlobalScopeCall ==
    "int main() {\n"
    \o "  return ::close(0);\n"
    \o "}\n"

\* A class whose constructor body is cut off by the end of the input.
TruncatedBody ==
    "class T {\n"
    \o "  int* p;\n"
    \o "  T() {\n"
    \o "    p = new int;\n"

\* Assignments with `new` whose '=' and whose target lie at the edges of
\* the windows of findAssignmentTarget, and one plain assignment.
AssignmentWindows ==
    "class W {\n"
    \o "  int** p;\n"
    \o "  int* q;\n"
    \o "  int* r;\n"
    \o "  W() {\n"
    \o "    q = !cond(a, b, c) ? new int : 0;\n"
    \o "    (*p)[0] = new int;\n"
    \o "    r = new int[2];\n"
    \o "  }\n"
    \o "};\n"

\* Fragments of every kind the lexer tells apart, the last ones malformed.
LexerSample ==
    "#define X 1 \\\n"
    \o " 2\n"
    \o "const char* s = \"a\\\"b\"; /* c */\n"
    \o "x->y = 0x1F; a::b ++c; 'd' @\n"
    \o "\"open\n"
    \o "/* open"

SampleInputs ==
    {CrossFileTestH, CrossFileTestCpp, MultiLevelTest, GlobalScopeCall, LexerSample}

\* ParseFile's arguments: the absolute path and the content read.
SampleSources ==
    {[file |-> "/t/cross_file_test.h", content |-> CrossFileTestH],
     [file |-> "/t/cross_file_test.cpp", content |-> CrossFileTestCpp],
     [file |-> "multi_level_test.cpp", content |-> MultiLevelTest],
     [file |-> "/t/main.cpp", content |-> GlobalScopeCall],
     [file |-> "/t/truncated.cpp", content |-> TruncatedBody],
     [file |-> "/t/windows.cpp", content |-> AssignmentWindows]}

\* ParseFile's NewLexer on the content read.
LexInput ==
    /\ pc = "new"
    /\ \E input \in BoundedInputs \cup SampleInputs : lexer' = NewLexer(input)
    /\ pc' = "inTokenize"
    /\ UNCHANGED <<classes, leaks, parser>>
    /\ UNCHANGED mainVars

TokenizeStep ==
    /\ pc = "inTokenize"
    /\ lexer.pos < Len(lexer.input)
    /\ lexer' = TokenizeIteration(lexer)
    /\ UNCHANGED <<pc, classes, leaks, parser>>
    /\ UNCHANGED mainVars

TokenizeReturn ==
    /\ pc = "inTokenize"
    /\ ~(lexer.pos < Len(lexer.input))
    /\ lexer' = TokenizeEnd(lexer)
    /\ pc' = "tokenized"
    /\ UNCHANGED <<classes, leaks, parser>>
    /\ UNCHANGED mainVars

LexerNext ==
    \/ LexInput
    \/ TokenizeStep
    \/ TokenizeReturn

LexerSpec == Init /\ [][LexerNext]_vars

\* ParseFile up to the call of parse.
ParseFile ==
    /\ pc = "new"
    /\ \E s \in SampleSources
                \cup {[file |-> "/s/in.cpp", content |-> c] : c \in BoundedSources} :
            parser' = NewParser(Tokenize(s.content), s.file)
    /\ pc' = "inParse"
    /\ UNCHANGED <<classes, leaks, lexer>>
    /\ UNCHANGED mainVars

ParseStep ==
    /\ pc = "inParse"
    /\ ~isAtEnd(parser)
    /\ parser' = parseIteration(parser)
    /\ UNCHANGED <<pc, classes, leaks, lexer>>
    /\ UNCHANGED mainVars

ParseReturn ==
    /\ pc = "inParse"
    /\ isAtEnd(parser)
    /\ pc' = "parsed"
    /\ UNCHANGED <<classes, leaks, lexer, parser>>
    /\ UNCHANGED mainVars

ParserNext ==
    \/ ParseFile
    \/ ParseStep
    \/ ParseReturn

ParserSpec == Init /\ [][ParserNext]_vars

(***************************************************************************)
(* Properties.  They are stated about the finished run: the class that was *)
(* handed in, classes[1], and the leak list Analyze returned for it.      *)
(***************************************************************************)

Done == pc = "done"

HasPointerMember(c) == \E i \in DOMAIN c.Members : c.Members[i].IsPointer

PointerMemberNames(c) ==
    {c.Members[i].Name : i \in {j \in DOMAIN c.Members : c.Members[j].IsPointer}}

CtorAllocations(c) ==
    IF c.Constructor = Nil THEN <<>> ELSE c.Constructor.Allocations

CtorAllocated(c) ==
    {CtorAllocations(c)[i].VarName : i \in DOMAIN CtorAllocations(c)}

LastCtorAllocation(c, v) ==
    LET A == CtorAllocations(c)
    IN  A[MaxOf({i \in DOMAIN A : A[i].VarName = v})]

FunctionsOf(c) ==
    ({c.Constructor, c.Destructor} \ {Nil})
        \cup {c.Methods[i] : i \in DOMAIN c.Methods}

AliasRecords(c) ==
    UNION {{f.Aliases[i] : i \in DOMAIN f.Aliases} : f \in FunctionsOf(c)}

\* The names one alias assignment away from v, in either direction.
DirectAliases(c, v) ==
    {a.TargetVar : a \in {x \in AliasRecords(c) : x.SourceVar = v}}
        \cup {a.SourceVar : a \in {x \in AliasRecords(c) : x.TargetVar = v}}

\* v, or a name directly aliased to v, is a key of the collected deallocations.
Released(c, v) ==
    (({v} \cup DirectAliases(c, v)) \cap DOMAIN deallocatedVars(c)) # {}

EmptyDestructor(c) ==
    /\ c.Destructor # Nil
    /\ c.Destructor.Allocations = <<>>
    /\ c.Destructor.Deallocations = <<>>
    /\ c.Destructor.MethodCalls = <<>>
    /\ c.Destructor.Aliases = <<>>

LeakSet == {leaks[i] : i \in DOMAIN leaks}

Count(P(_)) == Len(SelectSeq(leaks, P))

IsRule1Reason(r) ==
    r \in {ReasonNotDeleted, ReasonArrayAsScalar, ReasonScalarAsArray}

IsReassignReason(c, r) ==
    \E i \in DOMAIN c.Methods : r = ReasonReassigned(c.Methods[i].Name)

IsDoubleFreeReason(c, r) ==
    \E a \in AliasRecords(c) : r = ReasonDoubleFree(a.TargetVar)

\* The one 'not deleted' Leak of Rule 1 for v.
NotDeletedLeak(c, v) ==
    Leak(c.File, LastCtorAllocation(c, v).Line, c.Name, v, ReasonNotDeleted, "error")

\* C1 (as amended): in a class with a pointer member, every variable v the
\* constructor assigns with 'new' and that is not released gets exactly one
\* 'not deleted' Leak, an error at the line of the constructor's (last)
\* allocation of v; with an empty destructor present the only other Leaks for
\* v are reassignment warnings (Rule 2) and double-free errors (Rule 3).
C1_MissingRelease ==
    Done =>
        LET c == classes[1]
        IN  HasPointerMember(c) =>
            \A v \in CtorAllocated(c) :
                ~Released(c, v) =>
                    /\ Count(LAMBDA l : l = NotDeletedLeak(c, v)) = 1
                    /\ Count(LAMBDA l : l.VarName = v /\ l.Reason = ReasonNotDeleted) = 1
                    /\ EmptyDestructor(c) =>
                        \A l \in LeakSet :
                            l.VarName = v =>
                                \/ l = NotDeletedLeak(c, v)
                                \/ IsReassignReason(c, l.Reason)
                                \/ IsDoubleFreeReason(c, l.Reason)

\* C1 as first stated: ... with an empty destructor present the 'not deleted'
\* Leak is the only Leak for v.
C1_OnlyLeakForV ==
    Done =>
        LET c == classes[1]
        IN  HasPointerMember(c) =>
            \A v \in CtorAllocated(c) :
                ~Released(c, v) =>
                    /\ Count(LAMBDA l : l = NotDeletedLeak(c, v)) = 1
                    /\ Count(LAMBDA l : l.VarName = v /\ l.Reason = ReasonNotDeleted) = 1
                    /\ EmptyDestructor(c) => Count(LAMBDA l : l.VarName = v) = 1

\* An unreleased constructor allocation beside an empty destructor, reported
\* once by Rule 1 and once more by Rule 2.
C1_Witness ==
    /\ Done
    /\ HasPointerMember(classes[1])
    /\ EmptyDestructor(classes[1])
    /\ \E v \in CtorAllocated(classes[1]) :
        /\ ~Released(classes[1], v)
        /\ NotDeletedLeak(classes[1], v) \in LeakSet
        /\ \E l \in LeakSet : l.VarName = v /\ IsReassignReason(classes[1], l.Reason)

\* Every deallocation of v or of a direct alias of v in a function the
\* traversal from the destructor went through.
CollectedRecords(c, v) ==
    LET names == {collected(c).entered[i].name : i \in DOMAIN collected(c).entered}
        fns == {f \in FunctionsOf(c) \ {c.Constructor} : f.Name \in names}
    IN  {d \in UNION {{f.Deallocations[i] : i \in DOMAIN f.Deallocations} : f \in fns} :
            d.VarName \in {v} \cup DirectAliases(c, v)}

\* The destructor releases every constructor-allocated variable, directly or
\* through an alias, and always in the form of the allocation.
ReleasesAllMatching(c) ==
    /\ c.Destructor # Nil
    /\ \A v \in CtorAllocated(c) :
        /\ CollectedRecords(c, v) # {}
        /\ \A d \in CollectedRecords(c, v) :
            d.IsArray = LastCtorAllocation(c, v).IsArray

C3_NoPointerMemberNoLeak ==
    Done => (~HasPointerMember(classes[1]) => leaks = <<>>)

\* A class without pointer member whose constructor allocates, with no
\* destructor, and with a method that re-allocates.
C3_Witness ==
    /\ Done
    /\ ~HasPointerMember(classes[1])
    /\ CtorAllocated(classes[1]) # {}
    /\ classes[1].Destructor = Nil
    /\ \E i \in DOMAIN classes[1].Methods : classes[1].Methods[i].Allocations # <<>>

\* The Leak Rule 1 owes for a released allocation of v whose found
\* deallocation is d: none when the forms match.
MismatchLeaks(c, v, d) ==
    LET alloc == LastCtorAllocation(c, v)
    IN  IF alloc.IsArray /\ ~d.IsArray
        THEN {Leak(c.File, d.Line, c.Name, v, ReasonArrayAsScalar, "error")}
        ELSE IF ~alloc.IsArray /\ d.IsArray
        THEN {Leak(c.File, d.Line, c.Name, v, ReasonScalarAsArray, "warning")}
        ELSE {}

MethodAllocations(c) ==
    UNION {{<<m, i>> : i \in DOMAIN c.Methods[m].Allocations} : m \in DOMAIN c.Methods}

\* Allocation a of method M re-assigns a constructor-allocated pointer member
\* and M has no delete of it on an earlier line.
Unguarded(c, M, a) ==
    /\ a.VarName \in PointerMemberNames(c)
    /\ a.VarName \in CtorAllocated(c)
    /\ ~\E j \in DOMAIN M.Deallocations :
            M.Deallocations[j].VarName = a.VarName /\ M.Deallocations[j].Line < a.Line

Rule2Leak(c, M, a) ==
    Leak(c.File, a.Line, c.Name, a.VarName, ReasonReassigned(M.Name), "warning")

\* One constructor allocation of a pointer member, one unguarded
\* re-allocation of it in a method, one delete of it, in the same form, in a
\* destructor that calls nothing.
ReassignScenario(c) ==
    /\ Len(CtorAllocations(c)) = 1
    /\ CtorAllocations(c)[1].VarName \in PointerMemberNames(c)
    /\ c.Destructor # Nil
    /\ c.Destructor.MethodCalls = <<>>
    /\ Len(c.Destructor.Deallocations) = 1
    /\ c.Destructor.Deallocations[1].VarName = CtorAllocations(c)[1].VarName
    /\ c.Destructor.Deallocations[1].IsArray = CtorAllocations(c)[1].IsArray
    /\ Cardinality(MethodAllocations(c)) = 1
    /\ \A p \in MethodAllocations(c) :
        /\ c.Methods[p[1]].Allocations[p[2]].VarName = CtorAllocations(c)[1].VarName
        /\ Unguarded(c, c.Methods[p[1]], c.Methods[p[1]].Allocations[p[2]])

\* C5: Rule 2 emits a warning Leak at a.line for allocation a of method M if
\* and only if a.variable is a pointer member, it was also allocated in the
\* constructor, and M has no Deallocation of it at a line strictly less than
\* a.line (so `delete x` on an earlier line of the same method silences it);
\* there is one such Leak per such allocation; and a constructor allocation
\* plus an unguarded re-allocation in a method plus a destructor delete gives
\* exactly one Rule-2 warning and no Rule-1 Leak.
C5_Reassignment ==
    Done =>
        LET c == classes[1]
        IN  /\ \A p \in MethodAllocations(c) :
                LET M == c.Methods[p[1]]
                    a == M.Allocations[p[2]]
                IN  (Rule2Leak(c, M, a) \in LeakSet) <=> Unguarded(c, M, a)
            /\ Count(LAMBDA l : IsReassignReason(c, l.Reason)) =
                Cardinality({p \in MethodAllocations(c) :
                    Unguarded(c, c.Methods[p[1]], c.Methods[p[1]].Allocations[p[2]])})
            /\ ReassignScenario(c) =>
                /\ Count(LAMBDA l : IsReassignReason(c, l.Reason)) = 1
                /\ Count(LAMBDA l : IsRule1Reason(l.Reason)) = 0

\* A method that deletes the member and re-allocates it on the same line:
\* the delete is not on an earlier line, so the warning is emitted.
C5_Witness ==
    /\ Done
    /\ \E p \in MethodAllocations(classes[1]) :
        LET M == classes[1].Methods[p[1]]
            a == M.Allocations[p[2]]
        IN  /\ Unguarded(classes[1], M, a)
            /\ Rule2Leak(classes[1], M, a) \in LeakSet
            /\ \E j \in DOMAIN M.Deallocations :
                M.Deallocations[j].VarName = a.VarName /\ M.Deallocations[j].Line = a.Line

\* The (method, alias) pairs of the class whose alias source is a pointer
\* member.
MemberAliases(c) ==
    UNION {{<<m, i>> : i \in {j \in DOMAIN c.Methods[m].Aliases :
                c.Methods[m].Aliases[j].SourceVar \in PointerMemberNames(c)}} :
            m \in DOMAIN c.Methods}

BothDeleted(M, alias) ==
    /\ \E j \in DOMAIN M.Deallocations : M.Deallocations[j].VarName = alias.SourceVar
    /\ \E j \in DOMAIN M.Deallocations : M.Deallocations[j].VarName = alias.TargetVar

Rule3Leak(c, alias) ==
    Leak(c.File, alias.Line, c.Name, alias.SourceVar,
         ReasonDoubleFree(alias.TargetVar), "error")

\* C6: Rule 3 emits an error Leak (variable = alias source, line = alias
\* line, reason 'potential double-free') for an alias of method M whose
\* source is a pointer member if and only if M holds a Deallocation of the
\* source and one of the target, in any order; there is one such Leak per such
\* alias, so an alias that is never deleted yields none.
C6_DoubleFree ==
    Done =>
        LET c == classes[1]
        IN  /\ \A p \in MemberAliases(c) :
                LET M == c.Methods[p[1]]
                IN  (Rule3Leak(c, M.Aliases[p[2]]) \in LeakSet)
                        <=> BothDeleted(M, M.Aliases[p[2]])
            /\ Count(LAMBDA l : IsDoubleFreeReason(c, l.Reason)) =
                Cardinality({p \in MemberAliases(c) :
                    BothDeleted(c.Methods[p[1]], c.Methods[p[1]].Aliases[p[2]])})

\* A double free flagged with the source deleted before the alias.
C6_Witness ==
    /\ Done
    /\ \E p \in MemberAliases(classes[1]) :
        LET M == classes[1].Methods[p[1]]
            alias == M.Aliases[p[2]]
        IN  /\ Rule3Leak(classes[1], alias) \in LeakSet
            /\ Len(M.Deallocations) = 2
            /\ M.Deallocations[1].VarName = alias.SourceVar
            /\ M.Deallocations[2].VarName = alias.TargetVar
            /\ M.Deallocations[1].Line < M.Deallocations[2].Line

\* A class with no destructor, no method, one member, a pointer, which is
\* all its constructor allocates.
SingleMemberNoDestructor(c) ==
    /\ c.Destructor = Nil
    /\ c.Methods = <<>>
    /\ Len(c.Members) = 1
    /\ c.Members[1].IsPointer
    /\ CtorAllocated(c) = {c.Members[1].Name}

\* C7: a class that has no destructor and whose constructor allocates its
\* single pointer member m yields as its whole leak list one Leak: an error,
\* 'no destructor', at m's declaration line.
C7_OneNoDestructorLeak ==
    Done =>
        LET c == classes[1]
        IN  SingleMemberNoDestructor(c) =>
                leaks = <<Leak(c.File, c.Members[1].Line, c.Name, c.Members[1].Name,
                               ReasonNoDestructor, "error")>>

MethodNames(c) == {c.Methods[i].Name : i \in DOMAIN c.Methods}

MethodNamed(c, n) == c.Methods[CHOOSE i \in DOMAIN c.Methods : c.Methods[i].Name = n]

\* The i-th function of the chain of single calls that starts at the
\* destructor (the destructor is the 0-th); Nil where the chain has ended.
RECURSIVE ChainFn(_, _)
ChainFn(c, i) ==
    IF i = 0 THEN c.Destructor
    ELSE LET f == ChainFn(c, i - 1)
         IN  IF f = Nil THEN Nil
             ELSE IF Len(f.MethodCalls) = 1 /\ f.MethodCalls[1] \in MethodNames(c)
             THEN MethodNamed(c, f.MethodCalls[1])
             ELSE Nil

\* destructor -> m1 -> ... -> mk, distinct methods of the class, each calling
\* the next and nothing else, where only mk deletes, and what it deletes is v,
\* in the form of v's allocation.
LinearChain(c, k, v) ==
    /\ \A i, j \in DOMAIN c.Methods : i # j => c.Methods[i].Name # c.Methods[j].Name
    /\ \A i \in 0..k : ChainFn(c, i) # Nil
    /\ \A i, j \in 1..k : i # j => ChainFn(c, i).Name # ChainFn(c, j).Name
    /\ ChainFn(c, k).MethodCalls = <<>>
    /\ \A i \in 0..(k - 1) : ChainFn(c, i).Deallocations = <<>>
    /\ Len(ChainFn(c, k).Deallocations) = 1
    /\ ChainFn(c, k).Deallocations[1].VarName = v
    /\ ChainFn(c, k).Deallocations[1].IsArray = LastCtorAllocation(c, v).IsArray

AllocatedMembers(c) == PointerMemberNames(c) \cap CtorAllocated(c)

C9_DepthBound ==
    Done =>
        LET c == classes[1]
            e == collected(c).entered
        IN  /\ \A i \in DOMAIN e : e[i].level <= 5
            /\ \A v \in AllocatedMembers(c) :
                LinearChain(c, 6, v) =>
                    /\ v \notin DOMAIN deallocatedVars(c)
                    /\ NotDeletedLeak(c, v) \in LeakSet

\* The delete is 6 calls down; the traversal stopped after five functions.
C9_Witness ==
    /\ Done
    /\ \E v \in AllocatedMembers(classes[1]) :
        /\ LinearChain(classes[1], 6, v)
        /\ NotDeletedLeak(classes[1], v) \in LeakSet
    /\ Len(collected(classes[1]).entered) = 5
    /\ \E i \in 1..5 : collected(classes[1]).entered[i].level = 5

NoNotDeletedLeak(v) ==
    \A l \in LeakSet : ~(l.VarName = v /\ l.Reason = ReasonNotDeleted)

\* C10: for an alias `a = b` recorded in any function of the class, a
\* collected deallocation of b discharges a constructor allocation of a, and
\* a collected deallocation of a discharges a constructor allocation of b: no
\* 'not deleted' Leak in either direction.
C10_AliasSymmetry ==
    Done =>
        LET c == classes[1]
        IN  \A alias \in AliasRecords(c) :
                /\ (alias.TargetVar \in CtorAllocated(c)
                        /\ alias.SourceVar \in DOMAIN deallocatedVars(c))
                    => NoNotDeletedLeak(alias.TargetVar)
                /\ (alias.SourceVar \in CtorAllocated(c)
                        /\ alias.TargetVar \in DOMAIN deallocatedVars(c))
                    => NoNotDeletedLeak(alias.SourceVar)

\* `a = b` with the pointer member a allocated in the constructor and only b
\* deleted in the destructor.
C10_Witness ==
    /\ Done
    /\ \E alias \in AliasRecords(classes[1]) :
        /\ alias.TargetVar \in AllocatedMembers(classes[1])
        /\ alias.SourceVar \in DOMAIN deallocatedVars(classes[1])
        /\ alias.TargetVar \notin DOMAIN deallocatedVars(classes[1])
        /\ NoNotDeletedLeak(alias.TargetVar)

\* The names joined to a name of S by at most n alias assignments, taken in
\* either direction.
RECURSIVE AliasReach(_, _, _)
AliasReach(c, S, n) ==
    IF n = 0 THEN S
    ELSE AliasReach(c, S \cup UNION {DirectAliases(c, x) : x \in S}, n - 1)

AliasClosure(c, v) == AliasReach(c, {v}, Cardinality(AliasRecords(c)))

\* C11: a constructor-allocated name X gets no 'not deleted' Leak whenever
\* some name reachable from X in the undirected alias relation, through any
\* number of alias edges, is among the deallocations collected from the
\* destructor.
C11_DischargeViaAliasChain ==
    Done =>
        \A v \in CtorAllocated(classes[1]) :
            (AliasClosure(classes[1], v) \cap DOMAIN deallocatedVars(classes[1]) # {})
                => NoNotDeletedLeak(v)

(***************************************************************************)
(* Properties of a run of main: the registry after the parse loop, the     *)
(* merged records in `classes`, the leaks, the exit code.                  *)
(***************************************************************************)

Merged == pc \in {"merged", "analyzed", "exited"}

Analyzed == pc \in {"analyzed", "exited"} /\ files # <<>>

IsDeclaration(fn) ==
    /\ fn # Nil
    /\ fn.Allocations = <<>> /\ fn.Deallocations = <<>>
    /\ fn.MethodCalls = <<>> /\ fn.Aliases = <<>>
    /\ fn.EndLine = 0

\* The registry holds the record of a header (pointer members, declared
\* constructor and destructor) and then the record of a .cpp that defines
\* the constructor and the destructor of the same class out of the class.
HeaderThenImpl(r) ==
    /\ Len(r) = 2
    /\ r[1].Name = r[2].Name
    /\ isHeaderFile(r[1].File) /\ ~isHeaderFile(r[2].File)
    /\ HasPointerMember(r[1])
    /\ IsDeclaration(r[1].Constructor) /\ IsDeclaration(r[1].Destructor)
    /\ r[2].Members = <<>>
    /\ r[2].Constructor # Nil /\ ~IsDeclaration(r[2].Constructor)
    /\ r[2].Destructor # Nil /\ ~IsDeclaration(r[2].Destructor)

\* C12: the record of a header followed by the record of the matching .cpp
\* merge into one class record with the header's Members, the .cpp
\* constructor's Allocations and the .cpp destructor's Deallocations; for
\* DataManager the analysis reports exactly one Leak: `name`, not deleted.
C12_RoundTripMerge ==
    /\ (Merged /\ HeaderThenImpl(registry)) =>
        /\ Len(classes) = 1
        /\ classes[1].Name = registry[1].Name
        /\ classes[1].Members = registry[1].Members
        /\ classes[1].Constructor.Allocations = registry[2].Constructor.Allocations
        /\ classes[1].Destructor.Deallocations = registry[2].Destructor.Deallocations
    /\ (Analyzed /\ registry = DataManagerHeader.classes \o DataManagerImpl.classes) =>
        leaks = <<Leak("/t/cross_file_test.h, cross_file_test.cpp", 7, "DataManager",
                       "name", ReasonNotDeleted, "error")>>

\* DataManager's header and implementation were parsed in this order,
\* merged and analyzed, and the one leak was reported.
C12_Witness ==
    /\ pc = "exited"
    /\ registry = DataManagerHeader.classes \o DataManagerImpl.classes
    /\ HeaderThenImpl(registry)
    /\ classes[1].Constructor = DataManagerImpl.classes[1].Constructor
    /\ Len(leaks) = 1

\* What the analyzer reads of a function.
SameBody(f, g) ==
    /\ f.Allocations = g.Allocations
    /\ f.Deallocations = g.Deallocations
    /\ f.MethodCalls = g.MethodCalls
    /\ f.Aliases = g.Aliases

\* Of the two records of one class in the registry, a has a declaration of
\* the function and b a definition of it with a body.
DeclaredAndDefined(fa, fb) ==
    /\ IsDeclaration(fa)
    /\ fb # Nil /\ fb.EndLine > 0

\* C13: when a body-less declaration of the destructor (or constructor) and
\* a definition of it with a body are merged, in either order, the merged
\* record has the definition's allocations, deallocations, invoked-method
\* names and aliases.
C13_ImplementationPreferred ==
    (Merged /\ Len(registry) = 2 /\ registry[1].Name = registry[2].Name) =>
        \A a, b \in 1..2 :
            /\ DeclaredAndDefined(registry[a].Destructor, registry[b].Destructor)
                => SameBody(classes[1].Destructor, registry[b].Destructor)
            /\ DeclaredAndDefined(registry[a].Constructor, registry[b].Constructor)
                => SameBody(classes[1].Constructor, registry[b].Constructor)

\* Every leak list a run of MergeClasses and AnalyzeClasses may return for
\* the registry r: one for each order the `range` loops over the merged map,
\* allocatedVars and pointerMembers may take.
PossibleLeakLists(r) ==
    UNION {LET cs == MergeClasses(r, mo)
           IN  {AnalyzeFrom(cs, orders, 1) :
                    orders \in {o \in [DOMAIN cs -> UNION {RangeOrders(cs[i]) : i \in DOMAIN cs}] :
                                    \A i \in DOMAIN cs : o[i] \in RangeOrders(cs[i])}} :
           mo \in MergeOrders(r)}

\* C16: for the class records added to the registry in a fixed order, the
\* Leak sequence returned by MergeClasses followed by AnalyzeClasses is the
\* same on every run: the list this run returned is the only possible one.
C16_DeterministicOrder ==
    Analyzed => PossibleLeakLists(registry) = {leaks}

\* The classes of the files that were read, in the order of the files.
ClassesRead ==
    Flatten([i \in DOMAIN files |->
        IF \E k \in DOMAIN skipped : skipped[k] = files[i].path
        THEN <<>> ELSE files[i].classes])

\* After the scan found files, every file was tried, each unreadable file
\* was logged once, and the classes of all the others were registered,
\* merged and analyzed.
OnlyUnreadableSkipped ==
    /\ next = Len(files) + 1
    /\ Len(skipped) <= Len(files)
    /\ \A k \in DOMAIN skipped : \E i \in DOMAIN files : files[i].path = skipped[k]
    /\ registry = ClassesRead
    /\ \E mo \in MergeOrders(registry) : classes = MergeClasses(registry, mo)
    /\ leaks \in PossibleLeakLists(registry)

\* C17 as stated: after a read error on a file only that file is skipped,
\* and the exit code is 1 if and only if at least one Leak was emitted.
C17_ExitOneIffLeak ==
    (pc = "exited" /\ files # <<>>) =>
        /\ OnlyUnreadableSkipped
        /\ (exitCode = <<1>>) <=> (Len(leaks) > 0)
        /\ (exitCode = <<0>>) <=> (Len(leaks) = 0)

\* C17: a read error on a file is logged and only that file is skipped; the
\* classes of the other files are registered, merged and analyzed; the exit
\* code is 1 whenever a Leak was emitted, and with no Leak it is 0 unless
\* writing the report failed, which exits with 1 as well.
C17_ReadErrorSkipsOneFile ==
    (pc = "exited" /\ files # <<>>) =>
        /\ OnlyUnreadableSkipped
        /\ (exitCode = <<1>>) <=> (Len(leaks) > 0 \/ reportErr)
        /\ (exitCode = <<0>>) <=> (Len(leaks) = 0 /\ ~reportErr)

\* The first of several files could not be read; the classes of the
\* others were analyzed, a leak was found, and the exit code is 1.
C17_Witness ==
    /\ pc = "exited"
    /\ Len(files) >= 2
    /\ skipped = <<files[1].path>>
    /\ registry = ClassesRead
    /\ files[Len(files)].classes # <<>>
    /\ Len(leaks) > 0
    /\ exitCode = <<1>>

\* The methods reached from the destructor by a chain of exactly n calls
\* through the class's method index.
RECURSIVE ReachedBy(_, _)
ReachedBy(c, n) ==
    LET mm == methodMap(c)
        callsOf(f) == {f.MethodCalls[i] : i \in DOMAIN f.MethodCalls} \cap DOMAIN mm
    IN  IF c.Destructor = Nil \/ n = 0 THEN {}
        ELSE IF n = 1 THEN callsOf(c.Destructor)
        ELSE UNION {callsOf(mm[m]) : m \in ReachedBy(c, n - 1)}

Calls(f, name) == \E i \in DOMAIN f.MethodCalls : f.MethodCalls[i] = name

\* C19: the traversal from the destructor ends for every call graph of the
\* class, cycles included, and goes through the body of each function name
\* at most once.
C19_VisitedOnce ==
    (pc \in {"added", "done"}) =>
        LET c == classes[1]
            e == collected(c).entered
        IN  /\ \A i, j \in DOMAIN e : i # j => e[i].name # e[j].name
            /\ Len(e) <= Len(c.Methods) + 1
            /\ collected(c).visited = {e[i].name : i \in DOMAIN e}

\* Two methods that call each other were both gone through, once, and one
\* of them is called again from a function further down.
C19_Witness ==
    /\ Done
    /\ \E a, b \in DOMAIN classes[1].Methods :
        LET A == classes[1].Methods[a]
            B == classes[1].Methods[b]
            e == collected(classes[1]).entered
        IN  /\ a # b
            /\ Calls(A, B.Name) /\ Calls(B, A.Name)
            /\ \E i, j \in DOMAIN e : i < j /\ e[i].name = A.Name /\ e[j].name = B.Name

DeallocatedNames(f) == {f.Deallocations[i].VarName : i \in DOMAIN f.Deallocations}

\* The names deleted in the destructor or in a method reachable from it by
\* a chain of at most 4 calls.
DeletedWithinFourCalls(c) ==
    IF c.Destructor = Nil THEN {}
    ELSE DeallocatedNames(c.Destructor)
            \cup UNION {DeallocatedNames(methodMap(c)[m]) :
                            m \in UNION {ReachedBy(c, n) : n \in 1..4}}

\* C20: whatever the order of the calls in each function, the names
\* collected from the destructor are exactly the names deleted in the
\* destructor or in a method reachable from it by some chain of at most 4
\* calls.
C20_NoDeallocationLost ==
    Done => DOMAIN deallocatedVars(classes[1]) = DeletedWithinFourCalls(classes[1])

\* The iteration of Tokenize that is about to run moves the position
\* forward, and not past the end of the input.
IterationAdvances ==
    (pc = "inTokenize" /\ lexer.pos < Len(lexer.input)) =>
        /\ TokenizeIteration(lexer).pos > lexer.pos
        /\ TokenizeIteration(lexer).pos <= Len(lexer.input)

\* What Tokenize returns has one End token, and it is the last token.
OneEndToken ==
    (pc = "tokenized") =>
        LET t == lexer.tokens
        IN  /\ Len(t) >= 1
            /\ t[Len(t)].Type = TokenEOF
            /\ \A i \in 1..(Len(t) - 1) : t[i].Type # TokenEOF
            /\ lexer.pos = Len(lexer.input)

\* C15: the lexer terminates on every input: every iteration of Tokenize
\* advances the position by at least one byte and never past the end of
\* the input, so that the loop runs at most once for each byte, and what
\* Tokenize returns contains exactly one End token, which is its last
\* element.
C15_LexerTerminates == IterationAdvances /\ OneEndToken

\* Tokenize has returned for an input with an unterminated string and an
\* unterminated comment, after iterations that produced tokens and
\* iterations that only skipped.
C15_Witness ==
    /\ pc = "tokenized"
    /\ Len(lexer.tokens) > 3
    /\ \E i \in DOMAIN lexer.tokens :
        /\ lexer.tokens[i].Type = TokenString
        /\ Len(lexer.tokens[i].Value) > 1
        /\ SubSeq(lexer.tokens[i].Value, Len(lexer.tokens[i].Value),
                  Len(lexer.tokens[i].Value)) # "\""
    /\ Contains(lexer.input, "/*")
    /\ ~Contains(lexer.input, "*/ ")
    /\ Contains(lexer.input, "#")

\* The iteration of the top-level loop of parse that is about to run
\* consumes a token.
TopLevelConsumes ==
    (pc = "inParse" /\ ~isAtEnd(parser)) =>
        parseIteration(parser).pos > parser.pos

\* The parser of the state, placed at token i.
ParserAt(i) == [parser EXCEPT !.pos = i]

\* The names a class of the token sequence can have.
IdentValues ==
    {parser.tokens[i].Value :
        i \in {j \in DOMAIN parser.tokens : parser.tokens[j].Type = TokenIdent}}

\* Wherever in the token sequence the class-body loop stands, and whatever
\* the class is called, its iteration consumes a token.
ClassBodyConsumes ==
    (pc = "inParse") =>
        \A i \in 0..(Len(parser.tokens) - 1) : \A name \in IdentValues \cup {""} :
            ~isAtEnd(ParserAt(i)) =>
                classBodyIteration(ParserAt(i),
                                   Class(name, parser.file, <<>>, Nil, Nil, <<>>),
                                   1).p.pos > i

\* Wherever in the token sequence the function-body loop stands, its
\* iteration consumes a token.
FunctionBodyConsumes ==
    (pc = "inParse") =>
        \A i \in 0..(Len(parser.tokens) - 1) :
            ~isAtEnd(ParserAt(i)) =>
                functionBodyIteration(ParserAt(i), FunctionDecl("", FALSE, 0),
                                      1).p.pos > i

\* C14: the parser terminates on every token sequence ending in End: every
\* iteration of the top-level loop, of the class-body loop and of the
\* function-body loop consumes at least one token.
C14_EveryIterationConsumes ==
    TopLevelConsumes /\ ClassBodyConsumes /\ FunctionBodyConsumes

\* C22: every Leak emitted for the class, under any of the four rules,
\* names a variable that is a pointer member of the class; a name that the
\* constructor assigns with `new` without its being a pointer member never
\* produces a Leak.
C22_LeakNamesPointerMember ==
    Done =>
        \A l \in LeakSet : l.VarName \in DOMAIN pointerMembers(classes[1])

\* What a Leak tells of the defect: class, variable, reason, severity.
LeakKey(l) == <<l.ClassName, l.VarName, l.Reason, l.Severity>>

LeakKeys(ls) == {LeakKey(ls[i]) : i \in DOMAIN ls}

\* h is the record of a header that declares pointer members, the
\* constructor, the destructor and the methods of a class, and s the record
\* of a .cpp that defines those functions out of the class.
SplitClass(h, s) ==
    /\ h.Name = s.Name
    /\ isHeaderFile(h.File) /\ ~isHeaderFile(s.File)
    /\ HasPointerMember(h)
    /\ IsDeclaration(h.Constructor) /\ IsDeclaration(h.Destructor)
    /\ \A i \in DOMAIN h.Methods : IsDeclaration(h.Methods[i])
    /\ s.Members = <<>>
    /\ s.Constructor # Nil /\ s.Constructor.EndLine > 0
    /\ s.Destructor # Nil /\ s.Destructor.EndLine > 0
    /\ \A i \in DOMAIN s.Methods : s.Methods[i].EndLine > 0
    /\ {h.Methods[i].Name : i \in DOMAIN h.Methods}
            = {s.Methods[i].Name : i \in DOMAIN s.Methods}

\* The record of the same class with the same bodies written inline in one
\* file: the members of the header, the functions of the .cpp, the
\* destructor under the name parseDestructor gives it.
InlineClass(h, s) ==
    Class(h.Name, s.File, h.Members, s.Constructor,
          [s.Destructor EXCEPT !.Name = "~" \o h.Name], s.Methods)

\* C21: for a class split into a declaring header and a .cpp with the
\* out-of-class definitions, parsed in either order, the set of Leaks
\* (class, variable, reason, severity) after merge and analysis equals the
\* set the analysis gives for the same class written inline in one file,
\* also when the destructor or a method holds only method calls.
C21_SplitIsTransparent ==
    (Analyzed /\ Len(registry) = 2) =>
        \A a, b \in 1..2 :
            SplitClass(registry[a], registry[b]) =>
                \A o \in RangeOrders(InlineClass(registry[a], registry[b])) :
                    LeakKeys(leaks) =
                        LeakKeys(analyzeClass(InlineClass(registry[a], registry[b]),
                                              o[1], o[2]))

\* Two records of one class were added; registry[1] is the held record T
\* and registry[2] the incoming record S of the one merge step.
OneMergeStep ==
    Merged /\ Len(registry) = 2 /\ registry[1].Name = registry[2].Name

\* C23: in the merge step of S into T, T.Members is replaced by S.Members,
\* whatever they contain, when S comes from a header and T does not; it is
\* kept when T comes from a header and S does not; otherwise S.Members is
\* taken only if T.Members is empty.
C23_MembersMergeStep ==
    OneMergeStep =>
        LET T == registry[1]
            S == registry[2]
        IN  classes[1].Members =
                IF isHeaderFile(S.File) /\ ~isHeaderFile(T.File) THEN S.Members
                ELSE IF isHeaderFile(T.File) /\ ~isHeaderFile(S.File) THEN T.Members
                ELSE IF T.Members = <<>> THEN S.Members
                ELSE T.Members

\* The records of class n in the registry, in the order they were added.
RecordsOf(n) == SelectSeq(registry, LAMBDA c : c.Name = n)

\* The held record of class n after the first k of its records were merged.
HeldAfter(n, k) == mergeFrom(<<>>, SubSeq(RecordsOf(n), 1, k), 1)[n].class

\* The Members the merge steps of mergeClassInto give for the records rs
\* from the k-th on when the held record counts as a header or not once and
\* for all (tIsHeader), m being the Members held so far.
RECURSIVE FixedStatusMembers(_, _, _, _)
FixedStatusMembers(rs, k, tIsHeader, m) ==
    IF k > Len(rs) THEN m
    ELSE LET sIsHeader == isHeaderFile(rs[k].File)
             sm == rs[k].Members
         IN  FixedStatusMembers(rs, k + 1, tIsHeader,
                IF sIsHeader /\ ~tIsHeader
                THEN (IF Len(sm) > 0 THEN sm ELSE m)
                ELSE IF ~sIsHeader /\ tIsHeader THEN m
                ELSE IF Len(m) = 0 /\ Len(sm) > 0 THEN sm
                ELSE m)

\* C24: the file attribution is display metadata only.  No merge step
\* changes whether the held record is classified as a header; the merged
\* Members are those the header-preference rule gives with the held
\* record's header status fixed by the file it first came from; and when
\* some record from a header has a non-empty member list, the merged
\* Members are those of a record from a header.
C24_FileIsDisplayOnly ==
    Merged =>
        \A i \in DOMAIN classes :
            LET n == classes[i].Name
                rs == RecordsOf(n)
            IN  /\ \A k \in 2..Len(rs) :
                        isHeaderFile(HeldAfter(n, k).File)
                            = isHeaderFile(HeldAfter(n, k - 1).File)
                /\ classes[i].Members =
                        FixedStatusMembers(rs, 2, isHeaderFile(rs[1].File), rs[1].Members)
                /\ (\E k \in DOMAIN rs :
                        isHeaderFile(rs[k].File) /\ rs[k].Members # <<>>)
                    => \E k \in DOMAIN rs :
                        isHeaderFile(rs[k].File) /\ classes[i].Members = rs[k].Members

HasAllocOrDealloc(m) == Len(m.Allocations) > 0 \/ Len(m.Deallocations) > 0

\* C25: after the merge step of S into T, every method of S whose name was
\* not in T is in T.Methods; for every method of S whose name was in T and
\* which has an allocation or a deallocation, the entry of that name in
\* T.Methods is the S method, however many new methods of S were appended
\* before it; and an S method with neither leaves T's entry as it was.
C25_MethodsMergeStep ==
    OneMergeStep =>
        LET T == registry[1]
            S == registry[2]
            tNames == {T.Methods[i].Name : i \in DOMAIN T.Methods}
            out == classes[1].Methods
        IN  /\ \A j \in DOMAIN S.Methods :
                    S.Methods[j].Name \notin tNames
                        => \E i \in DOMAIN out : out[i] = S.Methods[j]
            /\ \A i \in DOMAIN T.Methods :
                    LET upd == {j \in DOMAIN S.Methods :
                                    /\ S.Methods[j].Name = T.Methods[i].Name
                                    /\ HasAllocOrDealloc(S.Methods[j])}
                    IN  \/ \E k \in (i + 1)..Len(T.Methods) :
                                T.Methods[k].Name = T.Methods[i].Name
                        \/ out[i] = IF upd = {} THEN T.Methods[i]
                                    ELSE S.Methods[MaxOf(upd)]

\* The constructor (or destructor) fields of the records rs: f is the one
\* function a merged record may hold, or nil when none of them has one.
AtMostOneOf(f, fs) ==
    IF fs \subseteq {Nil} THEN f = Nil ELSE f \in fs \ {Nil}

\* C26: after any sequence of AddClasses calls, MergeClasses returns exactly
\* one record for each class name that was added and no other, and each
\* returned record holds at most one Constructor and at most one Destructor,
\* taken from the records of its name.
C26_OneRecordPerName ==
    Merged =>
        /\ {classes[i].Name : i \in DOMAIN classes}
                = {registry[k].Name : k \in DOMAIN registry}
        /\ \A i, j \in DOMAIN classes :
                classes[i].Name = classes[j].Name => i = j
        /\ \A i \in DOMAIN classes :
                LET rs == RecordsOf(classes[i].Name)
                IN  /\ AtMostOneOf(classes[i].Constructor,
                                   {rs[k].Constructor : k \in DOMAIN rs})
                    /\ AtMostOneOf(classes[i].Destructor,
                                   {rs[k].Destructor : k \in DOMAIN rs})

\* Two records of one class, each with a constructor and a destructor, were
\* added and merged into a single record.
C26_Witness ==
    /\ pc = "merged"
    /\ Len(registry) >= 2
    /\ registry[1].Name = registry[2].Name
    /\ \A k \in 1..2 : registry[k].Constructor # Nil /\ registry[k].Destructor # Nil
    /\ registry[1].Constructor # registry[2].Constructor
    /\ Len(classes) = 1
    /\ classes[1].Constructor = registry[2].Constructor

\* The tokens hold a declaration of the function `name` without a body: the
\* name on or after the given line, its parameter list, then ';'.
DeclaredOnlyAt(name, line) ==
    LET t == parser.tokens
    IN  \E i \in DOMAIN t : \E j \in DOMAIN t :
            /\ t[i].Type = TokenIdent /\ t[i].Value = name /\ t[i].Line >= line
            /\ i + 1 < j /\ j + 1 <= Len(t)
            /\ t[i + 1].Value = "("
            /\ t[j].Value = ")"
            /\ \A k \in (i + 2)..(j - 1) : t[k].Value \notin {"(", ")"}
            /\ t[j + 1].Value = ";"

\* C27: inside a class body a generic method that is only declared, its
\* parameter list followed by ';', yields no Function record: no element
\* of a class's Methods comes from such a declaration.
C27_DeclarationYieldsNoRecord ==
    pc = "parsed" =>
        \A c \in DOMAIN parser.classes :
            \A m \in DOMAIN parser.classes[c].Methods :
                LET fn == parser.classes[c].Methods[m]
                IN  ~(IsDeclaration(fn) /\ DeclaredOnlyAt(fn.Name, fn.StartLine))

\* The functions of the class records the parser holds.
ParsedFunctions ==
    UNION {FunctionsOf(parser.classes[c]) : c \in DOMAIN parser.classes}

LinesWithin(fn, recs) ==
    \A i \in DOMAIN recs :
        fn.StartLine <= recs[i].Line /\ recs[i].Line <= fn.EndLine

\* C28: for every Function the parser produced, also one whose body is cut
\* off by the end of the input or has mismatched braces, the line of every
\* recorded Allocation and Deallocation lies between the Function's start
\* line and end line, both included.
C28_LinesWithinFunction ==
    pc \in {"inParse", "parsed"} =>
        \A fn \in ParsedFunctions :
            LinesWithin(fn, fn.Allocations) /\ LinesWithin(fn, fn.Deallocations)

\* The assignment target the statement names for the `new` at tokens[n]:
\* the '=' is sought among the 10 tokens before `new`, the target among the
\* 5 tokens before that '=', and the first Ident met going back is taken;
\* "" when there is none.
StatedTarget(n) ==
    LET t == parser.tokens
        identsBefore(e) ==
            {j \in 1..(e - 1) : e - j <= 5 /\ t[j].Type = TokenIdent
                                    /\ t[j].Value # "this"}
        assigns == {e \in 1..(n - 1) :
                        n - e <= 10 /\ t[e].Value = "=" /\ identsBefore(e) # {}}
    IN  IF assigns = {} THEN ""
        ELSE t[MaxOf(identsBefore(MaxOf(assigns)))].Value

\* The variables of the Allocations recorded on the given line.
AllocatedOn(line) ==
    UNION {{fn.Allocations[i].VarName :
                i \in {k \in DOMAIN fn.Allocations : fn.Allocations[k].Line = line}} :
           fn \in ParsedFunctions}

\* C30: the variable of a `new` is found by scanning back up to 10 tokens
\* before `new` for an '=', then up to 5 further tokens back from that '='
\* for the first Ident; an '=' exactly 10 tokens before `new` and an Ident
\* exactly 5 tokens before the '=' are still found; when none is found the
\* allocation is dropped.
C30_AssignmentTargetWindows ==
    pc = "parsed" =>
        \A n \in DOMAIN parser.tokens :
            (parser.tokens[n].Type = TokenKeyword /\ parser.tokens[n].Value = "new") =>
                AllocatedOn(parser.tokens[n].Line)
                    = IF StatedTarget(n) = "" THEN {} ELSE {StatedTarget(n)}

\* A block comment opens at byte k of the input and is never closed: the
\* bytes before it are plain code (no quote, comment or directive that
\* could hold the "/*"), and no "*/" follows it.
UnterminatedCommentAt(input, k) ==
    /\ k + 1 <= Len(input)
    /\ SubSeq(input, k, k + 1) = "/*"
    /\ \A i \in 1..(k - 1) :
            SubSeq(input, i, i) \notin {"/", "*", "\"", "'", "#", "\\"}
    /\ \A i \in (k + 2)..(Len(input) - 1) : SubSeq(input, i, i + 1) # "*/"

\* The tokens before the End token.
BeforeEnd(tokens) == SubSeq(tokens, 1, Len(tokens) - 1)

\* C29: an unterminated block comment consumes every remaining byte of the
\* input: the lexer emits the tokens of the text before the comment and
\* after it no token other than End.
C29_UnterminatedCommentToEnd ==
    pc = "tokenized" =>
        \A k \in 1..Len(lexer.input) :
            UnterminatedCommentAt(lexer.input, k) =>
                /\ BeforeEnd(lexer.tokens)
                        = BeforeEnd(Tokenize(SubSeq(lexer.input, 1, k - 1)))
                /\ lexer.tokens[Len(lexer.tokens)].Type = TokenEOF

====
